---- MODULE Spec2Model ----
(***************************************************************************)
(* TripEase client-side authentication (src/auth.js, class AuthSystem).    *)
(*                                                                         *)
(* Each browser tab that loads the page constructs its own AuthSystem; all *)
(* tabs of the origin share one localStorage.  A form value is a sequence  *)
(* of one-character strings, so that trim() and the validation patterns    *)
(* are computed on the characters.                                         *)
(***************************************************************************)
EXTENDS Integers, Sequences, FiniteSets, TLC

\* ------------------------------------------------------------------ bounds
\* Spec: operations awaiting their delay and longest user list.  MaxClock
\* is the largest value Date.now() returns in SpecTabs.
MaxInFlight == 1
MaxUsers == 1
MaxClock == 0

\* SpecConcurrent, where submissions overlap: operations awaiting their
\* delay, longest user list and largest value Date.now() returns.  SpecTabs
\* takes the first two of these and MaxClock.
ConcInFlight == 2
ConcUsers == 2
ConcClock == 1

\* SpecValidation, the form events: operations awaiting their delay and
\* longest user list.
ValInFlight == 1
ValUsers == 1

\* The tabs (AuthSystem instances) sharing the localStorage of the origin.
Tabs == {"tab1", "tab2"}

\* ------------------------------------------------------- program constants
\* setTimeout delay of handleLogin and of handleSignup, in milliseconds.
LoginDelay == 1000
SignupDelay == 1500

\* --------------------------------------------------------------- characters
Whitespace == {" ", "\t", "\n"}
Letters == {"a", "b", "c", "d", "e", "f", "g", "h", "i", "j", "k", "l", "m",
            "n", "o", "p", "q", "r", "s", "t", "u", "v", "w", "x", "y", "z",
            "A", "B", "C", "D", "E", "F", "G", "H", "I", "J", "K", "L", "M",
            "N", "O", "P", "Q", "R", "S", "T", "U", "V", "W", "X", "Y", "Z"}
Digits == {"0", "1", "2", "3", "4", "5", "6", "7", "8", "9"}

\* String.prototype.trim: strips whitespace at both ends.
RECURSIVE TrimLeft(_)
TrimLeft(s) ==
    IF s # <<>> /\ Head(s) \in Whitespace THEN TrimLeft(Tail(s)) ELSE s

RECURSIVE TrimRight(_)
TrimRight(s) ==
    IF s # <<>> /\ s[Len(s)] \in Whitespace
    THEN TrimRight(SubSeq(s, 1, Len(s) - 1))
    ELSE s

Trim(s) == TrimRight(TrimLeft(s))

\* True when every character of s[from..to] satisfies [^\s@].
NoSpaceNoAt(s, from, to) ==
    \A k \in from..to : s[k] \notin Whitespace /\ s[k] # "@"

\* /^[^\s@]+@[^\s@]+\.[^\s@]+$/
EmailPattern(s) ==
    \E i \in 2..Len(s) : \E j \in (i + 2)..(Len(s) - 1) :
        /\ s[i] = "@"
        /\ s[j] = "."
        /\ NoSpaceNoAt(s, 1, i - 1)
        /\ NoSpaceNoAt(s, i + 1, j - 1)
        /\ NoSpaceNoAt(s, j + 1, Len(s))

\* /^[a-zA-Z\s]+$/
NamePattern(s) ==
    /\ Len(s) >= 1
    /\ \A k \in 1..Len(s) : s[k] \in Letters \/ s[k] \in Whitespace

\* /^[\+]?[1-9][\d]{0,15}$/
PhonePattern(s) ==
    LET d == IF s # <<>> /\ Head(s) = "+" THEN Tail(s) ELSE s
    IN  /\ Len(d) >= 1
        /\ Len(d) <= 16
        /\ Head(d) \in Digits \ {"0"}
        /\ \A k \in 2..Len(d) : d[k] \in Digits

\* ------------------------------------------------------------- validation
\* validationRules: pattern is the name of the pattern ("" when the rule
\* has none), minLength is 0 when the rule has none.
validationRules ==
    [email |->
        [required |-> TRUE, pattern |-> "email", minLength |-> 0,
         message |-> "Please enter a valid email address"],
     password |->
        [required |-> TRUE, pattern |-> "", minLength |-> 6,
         message |-> "Password must be at least 6 characters long"],
     confirmPassword |->
        [required |-> TRUE, pattern |-> "", minLength |-> 0,
         message |-> "Passwords do not match"],
     firstName |->
        [required |-> TRUE, pattern |-> "name", minLength |-> 2,
         message |-> "First name must be at least 2 characters and contain only letters"],
     lastName |->
        [required |-> TRUE, pattern |-> "name", minLength |-> 2,
         message |-> "Last name must be at least 2 characters and contain only letters"],
     phone |->
        [required |-> TRUE, pattern |-> "phone", minLength |-> 0,
         message |-> "Please enter a valid phone number"]]

\* rules.pattern.test(value)
PatternTest(pattern, value) ==
    CASE pattern = "email" -> EmailPattern(value)
      [] pattern = "name" -> NamePattern(value)
      [] pattern = "phone" -> PhonePattern(value)

getFieldLabel(fieldName) ==
    CASE fieldName = "email" -> "Email"
      [] fieldName = "password" -> "Password"
      [] fieldName = "confirmPassword" -> "Confirm Password"
      [] fieldName = "firstName" -> "First Name"
      [] fieldName = "lastName" -> "Last Name"
      [] fieldName = "phone" -> "Phone Number"
      [] OTHER -> fieldName

\* field.parentNode carries no .error-message element.
NoError == ""

\* The message validateField shows for the field, "" when the field passes.
\* form is the record of the raw values of the form the field belongs to;
\* the element with id 'password' is the password input of that form.
FieldError(fieldName, form) ==
    LET value == Trim(form[fieldName])
        rules == validationRules[fieldName]
    IN  IF fieldName \notin DOMAIN validationRules THEN NoError
        ELSE IF rules.required /\ value = <<>>
            THEN getFieldLabel(fieldName) \o " is required"
        ELSE IF value # <<>> /\ rules.pattern # ""
                /\ ~PatternTest(rules.pattern, value)
            THEN rules.message
        ELSE IF value # <<>> /\ rules.minLength # 0
                /\ Len(value) < rules.minLength
            THEN rules.message
        ELSE IF fieldName = "confirmPassword"
                /\ "password" \in DOMAIN form
                /\ value # form.password
            THEN rules.message
        ELSE NoError

validateField(fieldName, form) == FieldError(fieldName, form) = NoError

\* form.querySelectorAll('input[required]') in document order, of the login
\* form and of the signup form.
LoginInputs == <<"email", "password">>
SignupInputs == <<"firstName", "lastName", "email", "phone", "password",
                  "confirmPassword">>

RequiredInputs(form) ==
    IF "firstName" \in DOMAIN form THEN SignupInputs ELSE LoginInputs

\* ValidateEach where isValid is the result of the field validated last.
RECURSIVE ValidateEachLastWins(_, _, _)
ValidateEachLastWins(fields, form, acc) ==
    IF fields = <<>> THEN acc
    ELSE LET e == FieldError(Head(fields), form)
         IN  ValidateEachLastWins(Tail(fields), form,
                [isValid |-> e = NoError,
                 errors |-> [acc.errors EXCEPT ![Head(fields)] = e]])

\* ValidateEach that stops at the first field that fails.
RECURSIVE ValidateEachShortCircuit(_, _, _)
ValidateEachShortCircuit(fields, form, acc) ==
    IF fields = <<>> THEN acc
    ELSE LET e == FieldError(Head(fields), form)
             next == [isValid |-> IF e # NoError THEN FALSE ELSE acc.isValid,
                      errors |-> [acc.errors EXCEPT ![Head(fields)] = e]]
         IN  IF e # NoError THEN next
             ELSE ValidateEachShortCircuit(Tail(fields), form, next)

\* The forEach loop of validateForm over the remaining fields: acc.isValid
\* is the flag so far, acc.errors the annotations of the inputs so far.
\* validateField replaces the annotation of the field it validates.
RECURSIVE ValidateEach(_, _, _)
ValidateEach(fields, form, acc) ==
    IF fields = <<>> THEN acc
    ELSE LET e == FieldError(Head(fields), form)
         IN  ValidateEach(Tail(fields), form,
                [isValid |-> IF e # NoError THEN FALSE ELSE acc.isValid,
                 errors |-> [acc.errors EXCEPT ![Head(fields)] = e]])

\* validateForm(form) when the inputs of the form carry the annotations
\* prior: the flag returned and the annotations left.
ValidateFormRun(form, prior) ==
    ValidateEach(RequiredInputs(form), form,
                 [isValid |-> TRUE, errors |-> prior])

\* The annotations validateForm leaves on the inputs of the form.
FormErrors(form, prior) == ValidateFormRun(form, prior).errors

\* validateForm that finds every form valid.
validateFormAcceptsAll(form) == TRUE

validateForm(form) ==
    ValidateFormRun(form, [f \in DOMAIN form |-> NoError]).isValid

\* ------------------------------------------------------------------ state
VARIABLES
    users,          \* users[t]: this.users of tab t, a sequence of Identities
    currentUser,    \* currentUser[t]: this.currentUser of tab t, or null
    localStorage,   \* the shared storage: a function from its keys to values
    inflight,       \* inflight[t]: the handler calls of tab t awaiting their delay
    notification,   \* notification[t]: the .notification element tab t shows
    errors,         \* errors[t][form][field]: the .error-message of the input
    submitBtn,      \* submitBtn[t][form]: text and disabled of the submit button
    django,         \* the accounts_user table of the backend, by email
    supabase,       \* the users of Supabase Auth, by email
    provider,       \* Supabase: "unconfigured", "reachable" or "unreachable"
    request,        \* the signup, login or profile update the backend serves
    session,        \* the email of the user of the Django session, or ""
    response,       \* what the backend answered to the latest request
    accounts_user,  \* the rows of the table the policies guard, by id
    pg_policies,    \* the policies in force on accounts_user
    reply           \* what the database answered to the latest statement

\* The state of the page (src/auth.js) and of the backend.
authVars == <<users, currentUser, localStorage, inflight, notification, errors,
              submitBtn>>
syncVars == <<django, supabase, provider, request, session, response>>

policyVars == <<accounts_user, pg_policies, reply>>

vars == <<authVars, syncVars, policyVars>>

null == [isNull |-> TRUE]

NoNotification == [message |-> "", type |-> ""]

\* Text of the submit buttons in the page.
InitialBtn ==
    [login |-> [text |-> "Sign In", disabled |-> FALSE],
     signup |-> [text |-> "Create Account", disabled |-> FALSE]]

LoginFields == {"email", "password"}
SignupFields == {"email", "password", "confirmPassword", "firstName",
                 "lastName", "phone"}

NoErrors ==
    [login |-> [f \in LoginFields |-> NoError],
     signup |-> [f \in SignupFields |-> NoError]]

\* localStorage.getItem followed by JSON.parse: null for a missing key.
getItem(key) ==
    IF key \in DOMAIN localStorage THEN localStorage[key] ELSE null

\* localStorage.setItem(key, JSON.stringify(value)) on the storage ls.
setItem(ls, key, value) ==
    [k \in DOMAIN ls \cup {key} |-> IF k = key THEN value ELSE ls[k]]

\* localStorage.removeItem(key) on the storage ls.
removeItem(ls, key) ==
    [k \in DOMAIN ls \ {key} |-> ls[k]]

DigitChar(d) ==
    CASE d = 0 -> "0" [] d = 1 -> "1" [] d = 2 -> "2" [] d = 3 -> "3"
      [] d = 4 -> "4" [] d = 5 -> "5" [] d = 6 -> "6" [] d = 7 -> "7"
      [] d = 8 -> "8" [] d = 9 -> "9"

\* Number.prototype.toString of a non-negative integer.
RECURSIVE toString(_)
toString(n) ==
    IF n < 10 THEN <<DigitChar(n)>>
    ELSE Append(toString(n \div 10), DigitChar(n % 10))

\* Array.prototype.find: the first element satisfying the callback, or
\* null; hits is the set of the positions whose element satisfies it.
find(list, hits) ==
    IF hits = {} THEN null
    ELSE list[CHOOSE k \in hits : \A m \in hits : k <= m]

\* FindByCredentials with the password test left out.
FindByCredentialsEmailOnly(list, email, password) ==
    find(list, {k \in DOMAIN list : list[k].email = email})

\* this.users.find(u => u.email === email && u.password === password)
FindByCredentials(list, email, password) ==
    find(list, {k \in DOMAIN list :
                    list[k].email = email /\ list[k].password = password})

\* this.users.find(u => u.email === userData.email)
FindByEmail(list, email) ==
    find(list, {k \in DOMAIN list : list[k].email = email})

\* userData holding the values of the inputs as typed.
UserDataUntrimmed(form, now) ==
    [id |-> toString(now),
     email |-> form.email,
     password |-> form.password,
     firstName |-> form.firstName,
     lastName |-> form.lastName,
     phone |-> form.phone,
     createdAt |-> now]

\* The userData object handleSignup builds from the form when Date.now()
\* returns now.
UserData(form, now) ==
    [id |-> toString(now),
     email |-> Trim(form.email),
     password |-> form.password,
     firstName |-> Trim(form.firstName),
     lastName |-> Trim(form.lastName),
     phone |-> Trim(form.phone),
     createdAt |-> now]

Delay(op) == IF op.kind = "login" THEN LoginDelay ELSE SignupDelay

\* The timer of inflight[t][i] fires next among the timers of tab t: no
\* timer of the tab set earlier expires at or before it.
TimerDue(t, i) ==
    /\ i \in DOMAIN inflight[t]
    /\ \A j \in 1..(i - 1) : Delay(inflight[t][j]) > Delay(inflight[t][i])

RemoveAt(s, i) == SubSeq(s, 1, i - 1) \o SubSeq(s, i + 1, Len(s))

RECURSIVE SumLen(_, _)
SumLen(f, S) ==
    IF S = {} THEN 0
    ELSE LET t == CHOOSE x \in S : TRUE
         IN  Len(f[t]) + SumLen(f, S \ {t})

InFlightCount == SumLen(inflight, Tabs)

SignupsInFlight(t) ==
    Cardinality({i \in DOMAIN inflight[t] : inflight[t][i].kind = "signup"})

\* closeModal: removes every error annotation of both forms.
closeModal(t) == [errors EXCEPT ![t] = NoErrors]

\* ------------------------------------------------------------------ inputs
E1 == <<"a", "@", "b", ".", "c">>
E1Upper == <<"A", "@", "b", ".", "c">>
E1Padded == <<" ", "a", "@", "b", ".", "c">>
EBad == <<"a", "b">>
P1 == <<"s", "e", "c", "r", "e", "t">>
P2 == <<"S", "e", "c", "r", "e", "t">>
FirstNameIn == <<"J", "o">>
LastNameIn == <<"A", "n", "n">>
PhoneIn == <<"+", "1", "5">>

LoginForms ==
    [email : {E1, E1Padded, EBad}, password : {P1, P2}]

SignupForms ==
    [email : {E1, E1Upper, E1Padded}, password : {P1},
     confirmPassword : {P1}, firstName : {FirstNameIn},
     lastName : {LastNameIn}, phone : {PhoneIn}]
    \cup
    [email : {EBad}, password : {P1},
     confirmPassword : {P1}, firstName : {FirstNameIn},
     lastName : {LastNameIn}, phone : {PhoneIn}]

P1Padded == <<"s", "e", "c", "r", "e", "t", " ">>
PhoneBad == <<"0", "1">>

\* Values of the forms at the events of SpecValidation: the login form
\* valid, with a failing email, and with both fields failing.
ValLoginForms ==
    {[email |-> E1, password |-> P1],
     [email |-> EBad, password |-> P1],
     [email |-> EBad, password |-> <<>>]}

SignupForm(password, confirmPassword, phone) ==
    [email |-> E1, password |-> password,
     confirmPassword |-> confirmPassword, firstName |-> FirstNameIn,
     lastName |-> LastNameIn, phone |-> phone]

\* The signup form valid; with equal passwords ending in a space; with
\* another confirmation; with a confirmation that differs by a final space;
\* and with a failing phone and another confirmation.
ValSignupForms ==
    {SignupForm(P1, P1, PhoneIn),
     SignupForm(P1Padded, P1Padded, PhoneIn),
     SignupForm(P1, P2, PhoneIn),
     SignupForm(P1, P1Padded, PhoneIn),
     SignupForm(P1, P2, PhoneBad)}

\* ------------------------------------------------------------------- Init
\* First visit: the storage of the origin is empty and every tab has
\* constructed its AuthSystem from it.
InitAuth ==
    /\ localStorage = [k \in {} |-> null]
    /\ users = [t \in Tabs |-> <<>>]
    /\ currentUser = [t \in Tabs |-> null]
    /\ inflight = [t \in Tabs |-> <<>>]
    /\ notification = [t \in Tabs |-> NoNotification]
    /\ errors = [t \in Tabs |-> NoErrors]
    /\ submitBtn = [t \in Tabs |-> InitialBtn]

NoRequest == [kind |-> "none", step |-> "done"]

NoReply == [cmd |-> "none"]

\* No statement reaches the table through the policies: row level security
\* is not enabled yet and the table is seen by the backend only.
NoPolicyUse ==
    /\ accounts_user = <<>>
    /\ pg_policies = {}
    /\ reply = NoReply

\* The Django session of a visitor who is not logged in.
Anonymous == ""

\* The page served without the backend taking part: Supabase is not
\* configured and the backend serves no request.
Init ==
    /\ InitAuth
    /\ django = [e \in {} |-> null]
    /\ supabase = [e \in {} |-> null]
    /\ provider = "unconfigured"
    /\ request = NoRequest
    /\ session = Anonymous
    /\ response = "none"
    /\ NoPolicyUse

\* ---------------------------------------------------------------- actions
\* A constructor that reads the user list but starts every page Anonymous.
ConstructAnonymous(t) ==
    /\ users' = [users EXCEPT ![t] =
            IF "tripease_users" \in DOMAIN localStorage
            THEN localStorage["tripease_users"]
            ELSE <<>>]
    /\ currentUser' = [currentUser EXCEPT ![t] = null]
    /\ inflight' = [inflight EXCEPT ![t] = <<>>]
    /\ notification' = [notification EXCEPT ![t] = NoNotification]
    /\ errors' = [errors EXCEPT ![t] = NoErrors]
    /\ submitBtn' = [submitBtn EXCEPT ![t] = InitialBtn]
    /\ UNCHANGED localStorage

\* new AuthSystem() on a page load of tab t: the page is replaced, so its
\* pending timers and its DOM are gone.
Construct(t) ==
    /\ users' = [users EXCEPT ![t] =
            IF "tripease_users" \in DOMAIN localStorage
            THEN localStorage["tripease_users"]
            ELSE <<>>]
    /\ currentUser' = [currentUser EXCEPT ![t] = getItem("tripease_current_user")]
    /\ inflight' = [inflight EXCEPT ![t] = <<>>]
    /\ notification' = [notification EXCEPT ![t] = NoNotification]
    /\ errors' = [errors EXCEPT ![t] = NoErrors]
    /\ submitBtn' = [submitBtn EXCEPT ![t] = InitialBtn]
    /\ UNCHANGED localStorage

\* showNotification(message, type): replaces the notification shown.
showNotification(t, message, type) ==
    notification' = [notification EXCEPT ![t] =
        [message |-> message, type |-> type]]

\* The operation handleLogin leaves awaiting its delay.  The field
\* overtaken is a history of the run that no handler reads: logout() was
\* called in the tab while the operation awaited its delay.
LoginOp(t, form) ==
    [kind |-> "login",
     email |-> Trim(form.email),
     password |-> form.password,
     originalText |-> submitBtn[t].login.text,
     overtaken |-> FALSE]

\* handleLogin up to its await.
SubmitLogin(t, form) ==
    /\ errors' = [errors EXCEPT ![t].login = FormErrors(form, @)]
    /\ IF ~validateForm(form)
       THEN UNCHANGED <<inflight, submitBtn>>
       ELSE /\ inflight' = [inflight EXCEPT ![t] = Append(@, LoginOp(t, form))]
            /\ submitBtn' = [submitBtn EXCEPT ![t].login =
                    [text |-> "Signing in...", disabled |-> TRUE]]
    /\ UNCHANGED <<users, currentUser, localStorage, notification>>

\* handleLogin, the branch of a user found.
LoginSucceeded(t, user) ==
    /\ currentUser' = [currentUser EXCEPT ![t] = user]
    /\ localStorage' = setItem(localStorage, "tripease_current_user", user)
    /\ showNotification(t, "Login successful! Welcome back!", "success")
    /\ errors' = closeModal(t)

\* LoginFailed that also drops the Session.
LoginFailedDropsSession(t, op) ==
    /\ showNotification(t, "Invalid email or password", "error")
    /\ currentUser' = [currentUser EXCEPT ![t] = null]
    /\ localStorage' = removeItem(localStorage, "tripease_current_user")
    /\ UNCHANGED errors

\* LoginFailed with a message that depends on the email being registered.
LoginFailedTellsEmail(t, op) ==
    /\ IF \E k \in DOMAIN users[t] : users[t][k].email = op.email
       THEN showNotification(t, "Incorrect password", "error")
       ELSE showNotification(t, "No account with this email", "error")
    /\ UNCHANGED <<currentUser, localStorage, errors>>

\* handleLogin, the branch of no user found.
LoginFailed(t, op) ==
    /\ showNotification(t, "Invalid email or password", "error")
    /\ UNCHANGED <<currentUser, localStorage, errors>>

\* handleLogin from the return of its await to its end.
CompleteLogin(t, i) ==
    /\ TimerDue(t, i)
    /\ inflight[t][i].kind = "login"
    /\ LET op == inflight[t][i]
           user == FindByCredentials(users[t], op.email, op.password)
       IN  /\ IF user # null
              THEN LoginSucceeded(t, user)
              ELSE LoginFailed(t, op)
           /\ submitBtn' = [submitBtn EXCEPT ![t].login =
                    [text |-> op.originalText, disabled |-> FALSE]]
    /\ inflight' = [inflight EXCEPT ![t] = RemoveAt(@, i)]
    /\ UNCHANGED users

\* The signups awaiting their delay in any tab, as <<tab, index>> pairs.
PendingSignups ==
    {p \in UNION {{t} \X DOMAIN inflight[t] : t \in Tabs} :
        inflight[p[1]][p[2]].kind = "signup"}

\* The operation handleSignup leaves awaiting its delay.  The field peers
\* is a history of the run that no handler reads: the userData of the
\* signups for another email that awaited their delay at the same time.
SignupOp(t, userData) ==
    [kind |-> "signup",
     userData |-> userData,
     originalText |-> submitBtn[t].signup.text,
     overtaken |-> FALSE,
     peers |-> {inflight[p[1]][p[2]].userData :
                    p \in {q \in PendingSignups :
                        inflight[q[1]][q[2]].userData.email # userData.email}}]

\* The pending operations, each signup for another email noting userData
\* among its peers.
NotePeer(userData) ==
    [u \in Tabs |->
        [i \in DOMAIN inflight[u] |->
            IF /\ inflight[u][i].kind = "signup"
               /\ inflight[u][i].userData.email # userData.email
            THEN [inflight[u][i] EXCEPT !.peers = @ \cup {userData}]
            ELSE inflight[u][i]]]

\* SignupDuplicate that also drops the Session.
SignupDuplicateDropsSession(t) ==
    /\ showNotification(t, "An account with this email already exists", "error")
    /\ currentUser' = [currentUser EXCEPT ![t] = null]
    /\ localStorage' = removeItem(localStorage, "tripease_current_user")
    /\ UNCHANGED <<inflight, submitBtn>>

\* handleSignup, the branch of an email that is already in this.users.
SignupDuplicate(t) ==
    /\ showNotification(t, "An account with this email already exists", "error")
    /\ UNCHANGED <<inflight, submitBtn, currentUser, localStorage>>

\* handleSignup up to its await, Date.now() returning now.
SubmitSignup(t, form, now) ==
    /\ errors' = [errors EXCEPT ![t].signup = FormErrors(form, @)]
    /\ IF ~validateForm(form)
       THEN UNCHANGED <<inflight, submitBtn, notification, currentUser,
                        localStorage>>
       ELSE IF FindByEmail(users[t], UserData(form, now).email) # null
       THEN SignupDuplicate(t)
       ELSE /\ inflight' = [NotePeer(UserData(form, now)) EXCEPT ![t] =
                    Append(@, SignupOp(t, UserData(form, now)))]
            /\ submitBtn' = [submitBtn EXCEPT ![t].signup =
                    [text |-> "Creating account...", disabled |-> TRUE]]
            /\ UNCHANGED <<notification, currentUser, localStorage>>
    /\ UNCHANGED users

\* handleSignup from the return of its await to its end.
CompleteSignup(t, i) ==
    /\ TimerDue(t, i)
    /\ inflight[t][i].kind = "signup"
    /\ LET op == inflight[t][i]
           pushed == Append(users[t], op.userData)
       IN  /\ users' = [users EXCEPT ![t] = pushed]
           /\ localStorage' =
                setItem(setItem(localStorage, "tripease_users", pushed),
                        "tripease_current_user", op.userData)
           /\ currentUser' = [currentUser EXCEPT ![t] = op.userData]
           /\ showNotification(t,
                "Account created successfully! Welcome to TripEase!", "success")
           /\ errors' = closeModal(t)
           /\ submitBtn' = [submitBtn EXCEPT ![t].signup =
                [text |-> op.originalText, disabled |-> FALSE]]
    /\ inflight' = [inflight EXCEPT ![t] = RemoveAt(@, i)]

\* logout()
Logout(t) ==
    /\ currentUser' = [currentUser EXCEPT ![t] = null]
    /\ localStorage' = removeItem(localStorage, "tripease_current_user")
    /\ showNotification(t, "Logged out successfully", "info")
    /\ inflight' = [inflight EXCEPT ![t] =
            [i \in DOMAIN @ |-> [@[i] EXCEPT !.overtaken = TRUE]]]
    /\ UNCHANGED <<users, errors, submitBtn>>

\* The blur listener on an input of a form: validateField(e.target), form
\* being the values the inputs of that form hold at the event.
Blur(t, formName, fieldName, form) ==
    /\ errors' = [errors EXCEPT ![t][formName][fieldName] =
            FieldError(fieldName, form)]
    /\ UNCHANGED <<users, currentUser, localStorage, inflight, notification,
                   submitBtn>>

\* The click listener on .modal-close and .modal-overlay: closeModal().
ClickModalClose(t) ==
    /\ errors' = closeModal(t)
    /\ UNCHANGED <<users, currentUser, localStorage, inflight, notification,
                   submitBtn>>

\* Input that removes the annotations of every input of the form.
InputClearsForm(t, formName, fieldName) ==
    /\ errors' = [errors EXCEPT ![t][formName] =
            [f \in DOMAIN @ |-> NoError]]
    /\ UNCHANGED <<users, currentUser, localStorage, inflight, notification,
                   submitBtn>>

\* The input listener on an input of a form: clearFieldError(e.target).
Input(t, formName, fieldName) ==
    /\ errors' = [errors EXCEPT ![t][formName][fieldName] = NoError]
    /\ UNCHANGED <<users, currentUser, localStorage, inflight, notification,
                   submitBtn>>

\* handleSignup with this form leaves a signup awaiting its delay.
SignupAccepted(t, form) ==
    /\ validateForm(form)
    /\ FindByEmail(users[t], Trim(form.email)) = null

\* A further signup of tab t stays within the bounds: at most maxInFlight
\* operations await their delay, and the user list of the tab has at most
\* maxUsers Identities when every pending signup has completed.
RoomForSignup(t, maxInFlight, maxUsers) ==
    /\ InFlightCount < maxInFlight
    /\ Len(users[t]) + SignupsInFlight(t) < maxUsers

\* One tab used with at most MaxInFlight operations awaiting their delay;
\* Date.now() returns 0 to every signup.
Next ==
    \/ Construct("tab1") /\ UNCHANGED <<syncVars, policyVars>>
    \/ \E form \in LoginForms :
        /\ validateForm(form) => InFlightCount < MaxInFlight
        /\ SubmitLogin("tab1", form)
        /\ UNCHANGED <<syncVars, policyVars>>
    \/ \E i \in DOMAIN inflight["tab1"] :
        CompleteLogin("tab1", i) /\ UNCHANGED <<syncVars, policyVars>>
    \/ \E form \in SignupForms :
        /\ SignupAccepted("tab1", form)
            => RoomForSignup("tab1", MaxInFlight, MaxUsers)
        /\ SubmitSignup("tab1", form, 0)
        /\ UNCHANGED <<syncVars, policyVars>>
    \/ \E i \in DOMAIN inflight["tab1"] :
        CompleteSignup("tab1", i) /\ UNCHANGED <<syncVars, policyVars>>
    \/ Logout("tab1") /\ UNCHANGED <<syncVars, policyVars>>

Spec == Init /\ [][Next]_vars

\* One tab, submissions arriving while earlier ones await their delay.
\* Every value of 0..ConcClock is a reading of Date.now() a signup can get
\* (the system clock is not monotonic).
NextConcurrent ==
    \/ Construct("tab1") /\ UNCHANGED <<syncVars, policyVars>>
    \/ \E form \in LoginForms :
        /\ validateForm(form) => InFlightCount < ConcInFlight
        /\ SubmitLogin("tab1", form)
        /\ UNCHANGED <<syncVars, policyVars>>
    \/ \E i \in DOMAIN inflight["tab1"] :
        CompleteLogin("tab1", i) /\ UNCHANGED <<syncVars, policyVars>>
    \/ \E form \in SignupForms : \E now \in 0..ConcClock :
        /\ SignupAccepted("tab1", form)
            => RoomForSignup("tab1", ConcInFlight, ConcUsers)
        /\ SubmitSignup("tab1", form, now)
        /\ UNCHANGED <<syncVars, policyVars>>
    \/ \E i \in DOMAIN inflight["tab1"] :
        CompleteSignup("tab1", i) /\ UNCHANGED <<syncVars, policyVars>>
    \/ Logout("tab1") /\ UNCHANGED <<syncVars, policyVars>>

SpecConcurrent == Init /\ [][NextConcurrent]_vars

\* Forms submitted when several tabs are open.
TabsSignupForms ==
    [email : {E1, E1Upper}, password : {P1},
     confirmPassword : {P1}, firstName : {FirstNameIn},
     lastName : {LastNameIn}, phone : {PhoneIn}]

\* Every tab of Tabs signing up and logging out on the shared storage.
NextTabs ==
    \/ \E t \in Tabs : Construct(t) /\ UNCHANGED <<syncVars, policyVars>>
    \/ \E t \in Tabs : \E form \in TabsSignupForms : \E now \in 0..MaxClock :
        /\ SignupAccepted(t, form)
            => RoomForSignup(t, ConcInFlight, ConcUsers)
        /\ SubmitSignup(t, form, now)
        /\ UNCHANGED <<syncVars, policyVars>>
    \/ \E t \in Tabs : \E i \in DOMAIN inflight[t] :
        CompleteSignup(t, i) /\ UNCHANGED <<syncVars, policyVars>>
    \/ \E t \in Tabs : Logout(t) /\ UNCHANGED <<syncVars, policyVars>>

SpecTabs == Init /\ [][NextTabs]_vars

\* Forms of the login modal submitted when several tabs are open.
TabsLoginForms ==
    [email : {E1}, password : {P1, P2}]

\* Every tab of Tabs signing up, logging in and logging out on the shared
\* storage, one operation awaiting its delay at a time.
NextShared ==
    \/ \E t \in Tabs : Construct(t) /\ UNCHANGED <<syncVars, policyVars>>
    \/ \E t \in Tabs : \E form \in TabsLoginForms :
        /\ validateForm(form) => InFlightCount < MaxInFlight
        /\ SubmitLogin(t, form)
        /\ UNCHANGED <<syncVars, policyVars>>
    \/ \E t \in Tabs : \E i \in DOMAIN inflight[t] :
        CompleteLogin(t, i) /\ UNCHANGED <<syncVars, policyVars>>
    \/ \E t \in Tabs : \E form \in TabsSignupForms :
        /\ SignupAccepted(t, form)
            => RoomForSignup(t, MaxInFlight, MaxUsers)
        /\ SubmitSignup(t, form, 0)
        /\ UNCHANGED <<syncVars, policyVars>>
    \/ \E t \in Tabs : \E i \in DOMAIN inflight[t] :
        CompleteSignup(t, i) /\ UNCHANGED <<syncVars, policyVars>>
    \/ \E t \in Tabs : Logout(t) /\ UNCHANGED <<syncVars, policyVars>>

SpecShared == Init /\ [][NextShared]_vars

\* tab1 signing up, logging in and logging out while the page of tab2 is
\* loaded again and logs out, on the shared storage.
NextReload ==
    \/ \E t \in Tabs : Construct(t) /\ UNCHANGED <<syncVars, policyVars>>
    \/ \E form \in TabsLoginForms :
        /\ validateForm(form) => InFlightCount < MaxInFlight
        /\ SubmitLogin("tab1", form)
        /\ UNCHANGED <<syncVars, policyVars>>
    \/ \E i \in DOMAIN inflight["tab1"] :
        CompleteLogin("tab1", i) /\ UNCHANGED <<syncVars, policyVars>>
    \/ \E form \in TabsSignupForms :
        /\ SignupAccepted("tab1", form)
            => RoomForSignup("tab1", MaxInFlight, MaxUsers)
        /\ SubmitSignup("tab1", form, 0)
        /\ UNCHANGED <<syncVars, policyVars>>
    \/ \E i \in DOMAIN inflight["tab1"] :
        CompleteSignup("tab1", i) /\ UNCHANGED <<syncVars, policyVars>>
    \/ \E t \in Tabs : Logout(t) /\ UNCHANGED <<syncVars, policyVars>>

SpecReload == Init /\ [][NextReload]_vars

PShort == <<"a", "b", "c">>
PShortPadded == <<"a", "b", "c", " ", " ", " ">>
NameShort == <<"J", " ">>
NameDigit == <<"J", "1">>

\* Signup forms with a passing and failing values of every input; the
\* confirmation repeats the password.
RulesSignupForms ==
    {[email |-> email, password |-> password, confirmPassword |-> password,
      firstName |-> firstName, lastName |-> LastNameIn, phone |-> phone] :
        email \in {E1, E1Padded, EBad},
        password \in {P1, PShort, PShortPadded},
        firstName \in {FirstNameIn, NameShort, NameDigit},
        phone \in {PhoneIn, PhoneBad}}

\* One tab signing up with the forms of RulesSignupForms.
NextRules ==
    \/ Construct("tab1") /\ UNCHANGED <<syncVars, policyVars>>
    \/ \E form \in RulesSignupForms :
        /\ SignupAccepted("tab1", form)
            => RoomForSignup("tab1", MaxInFlight, MaxUsers)
        /\ SubmitSignup("tab1", form, 0)
        /\ UNCHANGED <<syncVars, policyVars>>
    \/ \E i \in DOMAIN inflight["tab1"] :
        CompleteSignup("tab1", i) /\ UNCHANGED <<syncVars, policyVars>>
    \/ Logout("tab1") /\ UNCHANGED <<syncVars, policyVars>>

SpecRules == Init /\ [][NextRules]_vars

\* One tab, with the blur and input events of the inputs of both forms.
NextValidation ==
    \/ Construct("tab1") /\ UNCHANGED <<syncVars, policyVars>>
    \/ \E f \in LoginFields : \E form \in ValLoginForms :
        Blur("tab1", "login", f, form) /\ UNCHANGED <<syncVars, policyVars>>
    \/ \E f \in SignupFields : \E form \in ValSignupForms :
        Blur("tab1", "signup", f, form) /\ UNCHANGED <<syncVars, policyVars>>
    \/ \E f \in LoginFields :
        Input("tab1", "login", f) /\ UNCHANGED <<syncVars, policyVars>>
    \/ \E f \in SignupFields :
        Input("tab1", "signup", f) /\ UNCHANGED <<syncVars, policyVars>>
    \/ ClickModalClose("tab1") /\ UNCHANGED <<syncVars, policyVars>>
    \/ \E form \in ValLoginForms :
        /\ validateForm(form) => InFlightCount < ValInFlight
        /\ SubmitLogin("tab1", form)
        /\ UNCHANGED <<syncVars, policyVars>>
    \/ \E i \in DOMAIN inflight["tab1"] :
        CompleteLogin("tab1", i) /\ UNCHANGED <<syncVars, policyVars>>
    \/ \E form \in ValSignupForms :
        /\ SignupAccepted("tab1", form)
            => RoomForSignup("tab1", ValInFlight, ValUsers)
        /\ SubmitSignup("tab1", form, 0)
        /\ UNCHANGED <<syncVars, policyVars>>
    \/ \E i \in DOMAIN inflight["tab1"] :
        CompleteSignup("tab1", i) /\ UNCHANGED <<syncVars, policyVars>>

SpecValidation == Init /\ [][NextValidation]_vars

\* ---------------------------------------------------------------- backend
\* The backend (Django) with its Supabase Auth integration, as the setup
\* guide of the repository and the design of the Sync Coordinator describe
\* it.  The backend serves one request at a time, in steps between which
\* Supabase can become unreachable or reachable again.
SyncEmails == {"e1"}
SyncPasswords == {"pw1", "pw2"}
SyncFirstNames == {"Jo", "Joe"}

SignupData ==
    [email : SyncEmails, password : SyncPasswords,
     first_name : SyncFirstNames, last_name : {"Ann"}, phone : {"+15"}]

\* The fields of a profile a user can change.
ProfileData ==
    [first_name : SyncFirstNames, last_name : {"Ann"}, phone : {"+15", "+16"}]

\* Data Synced to Supabase: first_name, last_name, phone.
MirroredFields == {"first_name", "last_name", "phone"}

Mirrored(rec) == [f \in MirroredFields |-> rec[f]]

\* The table or the user list with the record rec stored under email.
Put(table, email, rec) ==
    [e \in DOMAIN table \cup {email} |-> IF e = email THEN rec ELSE table[e]]

\* The row of accounts_user created for a new user.
DjangoUser(data) ==
    [password |-> data.password, first_name |-> data.first_name,
     last_name |-> data.last_name, phone |-> data.phone,
     is_staff |-> FALSE, is_superuser |-> FALSE]

\* The user of Supabase Auth created with its metadata.
SupabaseUser(data) ==
    [password |-> data.password, metadata |-> Mirrored(data)]

\* Django's built-in authentication of an email and a password.
DjangoAuthenticates(email, password) ==
    /\ email \in DOMAIN django
    /\ django[email].password = password

\* Supabase is configured with a user that has a row in Supabase Auth, or
\* with none.
InitSync ==
    /\ InitAuth
    /\ django = [e \in {} |-> null]
    /\ supabase \in {[e \in {} |-> null],
                     [e \in {"e1"} |->
                        [password |-> "pw2",
                         metadata |-> [first_name |-> "Joe",
                                       last_name |-> "Ann",
                                       phone |-> "+16"]]]}
    /\ provider \in {"unconfigured", "reachable", "unreachable"}
    /\ request = NoRequest
    /\ session = Anonymous
    /\ response = "none"
    /\ NoPolicyUse

\* The backend serves no request: none has arrived, or the latest one was
\* answered (request then keeps what was served).
Idle == request.step = "done"

\* Supabase stops answering, and answers again.
ProviderFails ==
    /\ provider = "reachable"
    /\ provider' = "unreachable"
    /\ UNCHANGED <<django, supabase, request, session, response>>

ProviderRecovers ==
    /\ provider = "unreachable"
    /\ provider' = "reachable"
    /\ UNCHANGED <<django, supabase, request, session, response>>

\* User Signup, step 1: the user signs up.
BeginSignup(data) ==
    /\ Idle
    /\ request' = [kind |-> "signup", step |-> "external", data |-> data,
                   externalOk |-> FALSE]
    /\ response' = "pending"
    /\ UNCHANGED <<django, supabase, provider, session>>

\* User Signup, step 2: the account is created in Supabase Auth with its
\* metadata; when Supabase is not configured, does not answer or has the
\* email already, the step fails and the signup goes on.
SignupExternal ==
    /\ request.kind = "signup"
    /\ request.step = "external"
    /\ LET email == request.data.email
           created == provider = "reachable" /\ email \notin DOMAIN supabase
       IN  /\ supabase' = IF created
                THEN Put(supabase, email, SupabaseUser(request.data))
                ELSE supabase
           /\ request' = [request EXCEPT !.step = "local",
                                         !.externalOk = created]
    /\ UNCHANGED <<django, provider, session, response>>

\* SignupLocal that gives up when the account was not created in Supabase.
SignupLocalNeedsExternal ==
    /\ request.kind = "signup"
    /\ request.step = "local"
    /\ IF request.data.email \in DOMAIN django
       THEN /\ response' = "DuplicateEmail"
            /\ request' = [request EXCEPT !.step = "done"]
            /\ UNCHANGED django
       ELSE IF ~request.externalOk
       THEN /\ response' = "ProviderUnreachable"
            /\ request' = [request EXCEPT !.step = "done"]
            /\ UNCHANGED django
       ELSE /\ django' = Put(django, request.data.email,
                             DjangoUser(request.data))
            /\ request' = [request EXCEPT !.step = "sync"]
            /\ UNCHANGED response
    /\ UNCHANGED <<supabase, provider, session>>

\* User Signup, step 3: the account is created in the Django User model,
\* unless the table has the email (DuplicateEmail).
SignupLocal ==
    /\ request.kind = "signup"
    /\ request.step = "local"
    /\ IF request.data.email \in DOMAIN django
       THEN /\ response' = "DuplicateEmail"
            /\ request' = [request EXCEPT !.step = "done"]
            /\ UNCHANGED django
       ELSE /\ django' = Put(django, request.data.email,
                             DjangoUser(request.data))
            /\ request' = [request EXCEPT !.step = "sync"]
            /\ UNCHANGED response
    /\ UNCHANGED <<supabase, provider, session>>

\* User Signup, step 4: the data is synced to the Supabase user metadata
\* (when Supabase answers and has the user), and the user is logged in.
SignupSync ==
    /\ request.kind = "signup"
    /\ request.step = "sync"
    /\ LET email == request.data.email
       IN  /\ supabase' =
                IF provider = "reachable" /\ email \in DOMAIN supabase
                THEN [supabase EXCEPT ![email].metadata =
                        Mirrored(django[email])]
                ELSE supabase
           /\ session' = email
    /\ response' = "ok"
    /\ request' = [request EXCEPT !.step = "done"]
    /\ UNCHANGED <<django, provider>>

\* A login request arrives.
BeginLogin(email, password) ==
    /\ Idle
    /\ request' = [kind |-> "login", step |-> "external", email |-> email,
                   password |-> password, externalOk |-> FALSE,
                   metadata |-> null]
    /\ response' = "pending"
    /\ UNCHANGED <<django, supabase, provider, session>>

\* User Login, step 1: the user authenticates with Supabase using email and
\* password; when Supabase is not configured, does not answer or rejects
\* them, the login falls back to Django's authentication.
LoginExternal ==
    /\ request.kind = "login"
    /\ request.step = "external"
    /\ LET ok == /\ provider = "reachable"
                 /\ request.email \in DOMAIN supabase
                 /\ supabase[request.email].password = request.password
       IN  request' = IF ok
                THEN [request EXCEPT !.step = "link", !.externalOk = TRUE,
                        !.metadata = supabase[request.email].metadata]
                ELSE [request EXCEPT !.step = "fallback"]
    /\ UNCHANGED <<django, supabase, provider, session, response>>

\* User Login, steps 2 to 4: the Django user is retrieved or created by
\* email, the metadata from Supabase is synced to it, and the user is
\* logged into the Django session.
LoginLink ==
    /\ request.kind = "login"
    /\ request.step = "link"
    /\ LET email == request.email
           row == IF email \in DOMAIN django THEN django[email]
                  ELSE DjangoUser([password |-> request.password,
                                   first_name |-> "", last_name |-> "",
                                   phone |-> ""])
       IN  django' = Put(django, email,
                [row EXCEPT !.first_name = request.metadata.first_name,
                            !.last_name = request.metadata.last_name,
                            !.phone = request.metadata.phone])
    /\ session' = request.email
    /\ response' = "ok"
    /\ request' = [request EXCEPT !.step = "done"]
    /\ UNCHANGED <<supabase, provider>>

\* LoginFallback only when Supabase is not configured: a configured
\* Supabase that fails fails the login.
LoginFallbackOnlyUnconfigured ==
    /\ request.kind = "login"
    /\ request.step = "fallback"
    /\ IF /\ provider = "unconfigured"
          /\ DjangoAuthenticates(request.email, request.password)
       THEN /\ session' = request.email
            /\ response' = "ok"
       ELSE /\ response' = "InvalidCredentials"
            /\ UNCHANGED session
    /\ request' = [request EXCEPT !.step = "done"]
    /\ UNCHANGED <<django, supabase, provider>>

\* LoginFallback that logs in every email the table has.
LoginFallbackSkipsPassword ==
    /\ request.kind = "login"
    /\ request.step = "fallback"
    /\ IF request.email \in DOMAIN django
       THEN /\ session' = request.email
            /\ response' = "ok"
       ELSE /\ response' = "InvalidCredentials"
            /\ UNCHANGED session
    /\ request' = [request EXCEPT !.step = "done"]
    /\ UNCHANGED <<django, supabase, provider>>

\* Fallback Behavior: Django's built-in authentication decides the login.
LoginFallback ==
    /\ request.kind = "login"
    /\ request.step = "fallback"
    /\ IF DjangoAuthenticates(request.email, request.password)
       THEN /\ session' = request.email
            /\ response' = "ok"
       ELSE /\ response' = "InvalidCredentials"
            /\ UNCHANGED session
    /\ request' = [request EXCEPT !.step = "done"]
    /\ UNCHANGED <<django, supabase, provider>>

\* The user of the session leaves.
SyncLogout ==
    /\ Idle
    /\ session # Anonymous
    /\ session' = Anonymous
    /\ UNCHANGED <<django, supabase, provider, request, response>>

\* A profile update of the user of the session arrives.
BeginUpdate(data) ==
    /\ Idle
    /\ session # Anonymous
    /\ request' = [kind |-> "update", step |-> "local", email |-> session,
                   data |-> data]
    /\ response' = "pending"
    /\ UNCHANGED <<django, supabase, provider, session>>

\* Profile Updates, step 1: the user updates the profile in Django.
UpdateLocal ==
    /\ request.kind = "update"
    /\ request.step = "local"
    /\ django' = [django EXCEPT
            ![request.email].first_name = request.data.first_name,
            ![request.email].last_name = request.data.last_name,
            ![request.email].phone = request.data.phone]
    /\ request' = [request EXCEPT !.step = "propagate"]
    /\ UNCHANGED <<supabase, provider, session, response>>

\* UpdatePropagate that sends the whole row, the password with it.
UpdatePropagateWholeRow ==
    /\ request.kind = "update"
    /\ request.step = "propagate"
    /\ supabase' =
        IF provider = "reachable" /\ request.email \in DOMAIN supabase
        THEN [supabase EXCEPT
                ![request.email].metadata = Mirrored(django[request.email]),
                ![request.email].password = django[request.email].password]
        ELSE supabase
    /\ response' = "ok"
    /\ request' = [request EXCEPT !.step = "done"]
    /\ UNCHANGED <<django, provider, session>>

\* Profile Updates, step 2: the changes are synced to the Supabase user
\* metadata, the mirrored fields only; when Supabase does not take them the
\* update stands and the request succeeds.
UpdatePropagate ==
    /\ request.kind = "update"
    /\ request.step = "propagate"
    /\ supabase' =
        IF provider = "reachable" /\ request.email \in DOMAIN supabase
        THEN [supabase EXCEPT
                ![request.email].metadata = Mirrored(django[request.email])]
        ELSE supabase
    /\ response' = "ok"
    /\ request' = [request EXCEPT !.step = "done"]
    /\ UNCHANGED <<django, provider, session>>

NextSync ==
    \/ ProviderFails /\ UNCHANGED <<authVars, policyVars>>
    \/ ProviderRecovers /\ UNCHANGED <<authVars, policyVars>>
    \/ \E data \in SignupData : BeginSignup(data) /\ UNCHANGED <<authVars, policyVars>>
    \/ SignupExternal /\ UNCHANGED <<authVars, policyVars>>
    \/ SignupLocal /\ UNCHANGED <<authVars, policyVars>>
    \/ SignupSync /\ UNCHANGED <<authVars, policyVars>>
    \/ \E email \in SyncEmails : \E password \in SyncPasswords :
        BeginLogin(email, password) /\ UNCHANGED <<authVars, policyVars>>
    \/ LoginExternal /\ UNCHANGED <<authVars, policyVars>>
    \/ LoginLink /\ UNCHANGED <<authVars, policyVars>>
    \/ LoginFallback /\ UNCHANGED <<authVars, policyVars>>
    \/ SyncLogout /\ UNCHANGED <<authVars, policyVars>>
    \/ \E data \in ProfileData : BeginUpdate(data) /\ UNCHANGED <<authVars, policyVars>>
    \/ UpdateLocal /\ UNCHANGED <<authVars, policyVars>>
    \/ UpdatePropagate /\ UNCHANGED <<authVars, policyVars>>

SpecSync == InitSync /\ [][NextSync]_vars

\* --------------------------------------------------- row level security
\* The policies of the accounts_user table: the complete script
\* (src/accounts_user_rls_policies.sql), the simplified script
\* (src/unnamed/part_001) and the first script (src/unnamed/part_000).  A caller is a database role with its auth.uid(); a policy
\* applies to the roles and to the command it names; the permissive policies
\* that apply are combined with OR, and with row level security enabled a
\* row that no policy passes is not available to the statement.
\*
\* The expressions are read as they are declared: OLD is the row before the
\* update, and the EXISTS subquery of the staff policies reads the rows of
\* accounts_user themselves.

\* The table holds at most MaxRows rows, with the ids 1..MaxRows.
MaxRows == 2

RowIds == 1..MaxRows

Uids == {"u1", "u2"}

\* auth.uid() of a caller without a signed-in user (NULL): equal to no
\* user_id.
NoUid == ""

\* The email of the row of auth.users with the given id.
AuthEmail(uid) ==
    CASE uid = "u1" -> "e1"
      [] uid = "u2" -> "e2"
      [] OTHER -> ""

Callers ==
    {[role |-> "anon", uid |-> NoUid], [role |-> "service_role", uid |-> NoUid]}
        \cup {[role |-> "authenticated", uid |-> u] : u \in Uids}

\* The columns of accounts_user that the policies and the claims read.
Columns ==
    {"user_id", "email", "password", "first_name", "is_staff", "is_superuser"}

\* The columns a login needs: "to check email/password".
LoginColumns == {"email", "password"}

Row(user_id, email, first_name, is_staff, is_superuser) ==
    [user_id |-> user_id, email |-> email, password |-> "pw",
     first_name |-> first_name, is_staff |-> is_staff,
     is_superuser |-> is_superuser]

\* CREATE POLICY name ON accounts_user FOR cmd TO roles USING (using)
\* WITH CHECK (check).  An expression is named by a tag, evaluated by Holds;
\* "none" is a clause the statement does not have.
Policy(script, name, cmd, roles, using, check) ==
    [script |-> script, name |-> name, cmd |-> cmd, roles |-> roles,
     using |-> using, check |-> check]

\* src/accounts_user_rls_policies.sql, policies 1 to 8.
CompletePolicies ==
    {Policy("complete", "Service role full access", "ALL",
            {"service_role"}, "true", "true"),
     Policy("complete", "Allow public signup", "INSERT",
            {"anon", "authenticated"}, "none", "true"),
     Policy("complete", "Public can read for login", "SELECT",
            {"anon", "authenticated"}, "true", "none"),
     Policy("complete", "Users can read own data", "SELECT",
            {"authenticated"}, "own user_id", "none"),
     Policy("complete", "Users can update own profile", "UPDATE",
            {"authenticated"}, "own user_id", "own user_id, OLD flags"),
     Policy("complete", "Staff can read all users", "SELECT",
            {"authenticated"}, "staff by user_id", "none"),
     Policy("complete", "Staff can update all users", "UPDATE",
            {"authenticated"}, "staff by user_id", "staff by user_id"),
     Policy("complete", "Staff can delete users", "DELETE",
            {"authenticated"}, "staff by user_id", "none")}

\* src/unnamed/part_001, the simplified script: policies 1 to 4.
SimplifiedPolicies ==
    {Policy("simplified", "Service role full access", "ALL",
            {"service_role"}, "true", "true"),
     Policy("simplified", "Allow public signup", "INSERT",
            {"anon", "authenticated"}, "none", "true"),
     Policy("simplified", "Public can read for login", "SELECT",
            {"anon", "authenticated"}, "true", "none"),
     Policy("simplified", "Users can update own profile", "UPDATE",
            {"authenticated"}, "own email", "own email")}

\* src/unnamed/part_000, the first script: policies 1 to 8.
OriginalPolicies ==
    {Policy("original", "Users can read own data", "SELECT",
            {"authenticated"}, "own email", "none"),
     Policy("original", "Users can update own data", "UPDATE",
            {"authenticated"}, "own email", "own email, OLD flags"),
     Policy("original", "Allow public signup", "INSERT",
            {"anon", "authenticated"}, "none", "true"),
     Policy("original", "Service role full access", "ALL",
            {"service_role"}, "true", "true"),
     Policy("original", "Users can check own email", "SELECT",
            {"authenticated"}, "own email", "none"),
     Policy("original", "Public can check email for login", "SELECT",
            {"anon"}, "true", "none"),
     Policy("original", "Staff can read all users", "SELECT",
            {"authenticated"}, "staff by email", "none"),
     Policy("original", "Staff can update all users", "UPDATE",
            {"authenticated"}, "staff by email", "none")}

\* The rows present in a table.
RowsOf(table) == {table[id] : id \in {i \in DOMAIN table : table[i] # null}}

\* The test of the first script, which finds the caller's row by email:
\* EXISTS (SELECT 1 FROM accounts_user WHERE email = (SELECT email FROM
\*         auth.users WHERE id = auth.uid())
\*         AND (is_staff = true OR is_superuser = true))
IsStaffByEmail(uid, table) ==
    \E au \in RowsOf(table) :
        au.email = AuthEmail(uid) /\ (au.is_staff \/ au.is_superuser)

\* The test with is_staff alone.
IsStaffFlagOnly(uid, table) ==
    \E au \in RowsOf(table) : au.user_id = uid /\ au.is_staff

\* EXISTS (SELECT 1 FROM accounts_user au WHERE au.user_id = auth.uid()
\*         AND (au.is_staff = true OR au.is_superuser = true))
IsStaff(uid, table) ==
    \E au \in RowsOf(table) :
        au.user_id = uid /\ (au.is_staff \/ au.is_superuser)

\* Holds with a WITH CHECK of policy 5 that keeps the flags only.
HoldsKeepsFlagsOnly(expr, uid, old, row, table) ==
    CASE expr = "true" -> TRUE
      [] expr = "own user_id" -> row.user_id = uid
      [] expr = "own user_id, OLD flags" ->
            /\ row.is_superuser = old.is_superuser
            /\ row.is_staff = old.is_staff
      [] expr = "staff by user_id" -> IsStaff(uid, table)
      [] expr = "own email" -> row.email = AuthEmail(uid)
      [] OTHER -> FALSE

\* Holds with USING (true) and WITH CHECK (true) read as a test of the
\* row's owner.
HoldsTrueNeedsOwner(expr, uid, old, row, table) ==
    CASE expr = "true" -> row.user_id = uid
      [] expr = "own user_id" -> row.user_id = uid
      [] expr = "own user_id, OLD flags" ->
            /\ row.user_id = uid
            /\ row.user_id = old.user_id
            /\ row.is_superuser = old.is_superuser
            /\ row.is_staff = old.is_staff
      [] expr = "staff by user_id" -> IsStaff(uid, table)
      [] expr = "own email" -> row.email = AuthEmail(uid)
      [] OTHER -> FALSE

\* The value of a policy expression for the caller uid: row is the row the
\* expression is evaluated against (the existing row for USING, the proposed
\* row for WITH CHECK), old is the row named OLD, table is the table the
\* subquery reads.
Holds(expr, uid, old, row, table) ==
    CASE expr = "true" -> TRUE
      [] expr = "own user_id" -> row.user_id = uid
      [] expr = "own user_id, OLD flags" ->
            /\ row.user_id = uid
            /\ row.user_id = old.user_id
            /\ row.is_superuser = old.is_superuser
            /\ row.is_staff = old.is_staff
      [] expr = "staff by user_id" -> IsStaff(uid, table)
      [] expr = "own email" -> row.email = AuthEmail(uid)
      [] expr = "own email, OLD flags" ->
            /\ row.email = AuthEmail(uid)
            /\ row.is_superuser = old.is_superuser
            /\ row.is_staff = old.is_staff
      [] expr = "staff by email" -> IsStaffByEmail(uid, table)
      [] OTHER -> FALSE

\* Applicable without the TO clause: a policy applies to every role.
ApplicableIgnoresRole(policies, caller, cmd) ==
    {p \in policies : p.cmd \in {cmd, "ALL"}}

\* The policies in force that apply to a command of the caller.
Applicable(policies, caller, cmd) ==
    {p \in policies : caller.role \in p.roles /\ p.cmd \in {cmd, "ALL"}}

\* The existing row passes the USING expression of some applicable policy.
UsingPasses(policies, caller, cmd, row, table) ==
    \E p \in Applicable(policies, caller, cmd) :
        Holds(p.using, caller.uid, row, row, table)

\* The proposed row passes the WITH CHECK expression of some applicable
\* policy; a policy without WITH CHECK checks its USING expression.
CheckPasses(policies, caller, cmd, old, new, table) ==
    \E p \in Applicable(policies, caller, cmd) :
        Holds(IF p.check = "none" THEN p.using ELSE p.check,
              caller.uid, old, new, table)

\* UPDATE ... SET: the row with the columns of the SET clause replaced.
Apply(row, set) ==
    [c \in DOMAIN row |-> IF c \in DOMAIN set THEN set[c] ELSE row[c]]

\* email is unique: no other row of the table has the email.
EmailFree(table, id, email) ==
    \A i \in DOMAIN table : i = id \/ table[i] = null \/ table[i].email # email

FreeIds(table) == {i \in DOMAIN table : table[i] = null}

\* The lowest id no row has.
NextId(table) == CHOOSE i \in FreeIds(table) : \A j \in FreeIds(table) : i <= j

\* The rows a signup or the backend may insert.
InsertRows ==
    {Row("u2", "e2", "Jo", FALSE, FALSE),
     Row("u2", "e2", "Jo", FALSE, TRUE)}

\* The SET clauses of the updates.
SetClauses ==
    {[first_name |-> "Joe"],
     [first_name |-> "Joe", is_superuser |-> TRUE],
     [is_staff |-> TRUE],
     [email |-> "e2"],
     [user_id |-> "u2"]}

\* SELECT cols FROM accounts_user: the rows that pass a SELECT policy, with
\* the columns asked for.
Select(caller, cols) ==
    /\ reply' = [cmd |-> "SELECT", caller |-> caller, cols |-> cols,
                 status |-> "ok",
                 rows |-> {[c \in cols |-> r[c]] :
                            r \in {x \in RowsOf(accounts_user) :
                                     UsingPasses(pg_policies, caller,
                                                 "SELECT", x, accounts_user)}}]
    /\ UNCHANGED <<accounts_user, pg_policies>>

\* INSERT INTO accounts_user: refused with an error when no INSERT policy
\* passes the new row, or when the email is taken.
Insert(caller, row) ==
    /\ FreeIds(accounts_user) # {}
    /\ LET allowed == CheckPasses(pg_policies, caller, "INSERT", row, row,
                                  accounts_user)
           free == EmailFree(accounts_user, 0, row.email)
       IN  /\ accounts_user' =
                IF allowed /\ free
                THEN [accounts_user EXCEPT ![NextId(accounts_user)] = row]
                ELSE accounts_user
           /\ reply' = [cmd |-> "INSERT", caller |-> caller, row |-> row,
                        status |-> IF ~allowed THEN "PermissionDenied"
                                   ELSE IF ~free THEN "UniqueViolation"
                                   ELSE "ok",
                        count |-> IF allowed /\ free THEN 1 ELSE 0]
    /\ UNCHANGED pg_policies

\* An update that, when the proposed row is refused, applies the SET clause
\* without its flag columns.
UpdateRevertsFlags(caller, id, set) ==
    /\ LET old == accounts_user[id]
           available == /\ old # null
                        /\ UsingPasses(pg_policies, caller, "UPDATE", old,
                                       accounts_user)
           new == IF old = null THEN null ELSE Apply(old, set)
           allowed == /\ available
                      /\ CheckPasses(pg_policies, caller, "UPDATE", old, new,
                                     accounts_user)
           rest == IF old = null THEN null
                   ELSE [c \in DOMAIN old |->
                           IF c \in DOMAIN set \ {"is_staff", "is_superuser"}
                           THEN set[c] ELSE old[c]]
           free == old = null \/ EmailFree(accounts_user, id, new.email)
       IN  /\ accounts_user' =
                IF allowed /\ free
                THEN [accounts_user EXCEPT ![id] = new]
                ELSE IF available /\ free
                THEN [accounts_user EXCEPT ![id] = rest]
                ELSE accounts_user
           /\ reply' = [cmd |-> "UPDATE", caller |-> caller, id |-> id,
                        set |-> set,
                        status |-> IF available /\ ~free
                                   THEN "UniqueViolation" ELSE "ok",
                        count |-> IF available /\ free THEN 1 ELSE 0]
    /\ UNCHANGED pg_policies

\* UPDATE accounts_user SET set WHERE id = id.  A row that passes no UPDATE
\* policy's USING is not available to the statement, which then updates no
\* row; a proposed row that passes no WITH CHECK is an error, and the
\* statement changes nothing.
Update(caller, id, set) ==
    /\ LET old == accounts_user[id]
           available == /\ old # null
                        /\ UsingPasses(pg_policies, caller, "UPDATE", old,
                                       accounts_user)
           new == IF old = null THEN null ELSE Apply(old, set)
           allowed == /\ available
                      /\ CheckPasses(pg_policies, caller, "UPDATE", old, new,
                                     accounts_user)
           free == old = null \/ EmailFree(accounts_user, id, new.email)
       IN  /\ accounts_user' =
                IF allowed /\ free
                THEN [accounts_user EXCEPT ![id] = new]
                ELSE accounts_user
           /\ reply' = [cmd |-> "UPDATE", caller |-> caller, id |-> id,
                        set |-> set,
                        status |-> IF ~available THEN "ok"
                                   ELSE IF ~allowed THEN "PermissionDenied"
                                   ELSE IF ~free THEN "UniqueViolation"
                                   ELSE "ok",
                        count |-> IF allowed /\ free THEN 1 ELSE 0]
    /\ UNCHANGED pg_policies

\* DELETE FROM accounts_user WHERE id = id: of the rows that pass a DELETE
\* policy's USING.
Delete(caller, id) ==
    /\ LET old == accounts_user[id]
           available == /\ old # null
                        /\ UsingPasses(pg_policies, caller, "DELETE", old,
                                       accounts_user)
       IN  /\ accounts_user' =
                IF available THEN [accounts_user EXCEPT ![id] = null]
                ELSE accounts_user
           /\ reply' = [cmd |-> "DELETE", caller |-> caller, id |-> id,
                        status |-> "ok",
                        count |-> IF available THEN 1 ELSE 0]
    /\ UNCHANGED pg_policies

\* The tables the policies are enabled on: the row of a plain user u1, and
\* possibly the row of a staff member u2.
SeedTables ==
    {[id \in RowIds |->
        IF id = 1 THEN Row("u1", "e1", "Jo", FALSE, FALSE)
        ELSE IF id = 2 THEN second
        ELSE null] :
     second \in {null, Row("u2", "e2", "Jo", TRUE, FALSE)}}

\* The complete or the simplified script has been run on the table.
InitPolicy ==
    /\ InitAuth
    /\ django = [e \in {} |-> null]
    /\ supabase = [e \in {} |-> null]
    /\ provider = "unconfigured"
    /\ request = NoRequest
    /\ session = Anonymous
    /\ response = "none"
    /\ accounts_user \in SeedTables
    /\ pg_policies \in {CompletePolicies, SimplifiedPolicies}
    /\ reply = NoReply

NextPolicy ==
    \/ \E caller \in Callers : \E cols \in {LoginColumns, Columns} :
        Select(caller, cols) /\ UNCHANGED <<authVars, syncVars>>
    \/ \E caller \in Callers : \E row \in InsertRows :
        Insert(caller, row) /\ UNCHANGED <<authVars, syncVars>>
    \/ \E caller \in Callers : \E id \in RowIds : \E set \in SetClauses :
        Update(caller, id, set) /\ UNCHANGED <<authVars, syncVars>>
    \/ \E caller \in Callers : \E id \in RowIds :
        Delete(caller, id) /\ UNCHANGED <<authVars, syncVars>>

SpecPolicy == InitPolicy /\ [][NextPolicy]_vars

\* ------------------------------------------------------ the policy scripts
\* Running a script on the table: its DROP POLICY IF EXISTS statements, then
\* its CREATE POLICY statements, in the order of the file.

Scripts == {"complete", "simplified", "original"}

PoliciesOf(script) ==
    CASE script = "complete" -> CompletePolicies
      [] script = "simplified" -> SimplifiedPolicies
      [] script = "original" -> OriginalPolicies

\* The names of the DROP POLICY IF EXISTS statements of a script.
DropList(script) ==
    CASE script = "complete" ->
            <<"Service role full access", "Allow public signup",
              "Public can read for login", "Users can update own profile",
              "Users can read own data", "Users can check own email",
              "Staff can read all users", "Staff can update all users",
              "Public can check email for login">>
      [] script = "simplified" ->
            <<"Users can read own data", "Users can update own data",
              "Allow public signup", "Service role full access",
              "Public can check email for login">>
      [] script = "original" -> <<>>

\* The names of the CREATE POLICY statements of a script.
CreateList(script) ==
    CASE script = "complete" ->
            <<"Service role full access", "Allow public signup",
              "Public can read for login", "Users can read own data",
              "Users can update own profile", "Staff can read all users",
              "Staff can update all users", "Staff can delete users">>
      [] script = "simplified" ->
            <<"Service role full access", "Allow public signup",
              "Public can read for login", "Users can update own profile">>
      [] script = "original" ->
            <<"Users can read own data", "Users can update own data",
              "Allow public signup", "Service role full access",
              "Users can check own email", "Public can check email for login",
              "Staff can read all users", "Staff can update all users">>

\* The statements of a script.
Statements(script) ==
    [k \in DOMAIN DropList(script) |->
        [op |-> "DROP", name |-> DropList(script)[k]]]
    \o [k \in DOMAIN CreateList(script) |->
          [op |-> "CREATE",
           policy |-> CHOOSE p \in PoliciesOf(script) :
                         p.name = CreateList(script)[k]]]

\* What the client does when a statement fails: the whole script is one
\* transaction that is rolled back, or the script stops at the statement, or
\* the client goes on with the next statement.
ErrorModes == {"rollback", "stop", "continue"}

\* The policies after the statements, and whether a statement failed.  DROP
\* POLICY IF EXISTS removes the policy of that name, if any; CREATE POLICY
\* fails when the table has a policy of that name.
RECURSIVE Execute(_, _, _, _)
Execute(stmts, catalog, mode, failed) ==
    IF stmts = <<>> THEN [catalog |-> catalog, failed |-> failed]
    ELSE LET st == Head(stmts)
         IN  IF st.op = "DROP"
             THEN Execute(Tail(stmts),
                          {p \in catalog : p.name # st.name}, mode, failed)
             ELSE IF \E p \in catalog : p.name = st.policy.name
             THEN IF mode = "continue"
                  THEN Execute(Tail(stmts), catalog, mode, TRUE)
                  ELSE [catalog |-> catalog, failed |-> TRUE]
             ELSE Execute(Tail(stmts), catalog \cup {st.policy}, mode,
                          failed)

RunScript(script, mode) ==
    /\ LET res == Execute(Statements(script), pg_policies, mode, FALSE)
       IN  /\ pg_policies' = IF res.failed /\ mode = "rollback"
                             THEN pg_policies
                             ELSE res.catalog
           /\ reply' = [cmd |-> "SCRIPT", script |-> script, mode |-> mode,
                        status |-> IF res.failed THEN "error" ELSE "ok"]
    /\ UNCHANGED accounts_user

\* Row level security is enabled on the table and no script has been run.
InitScripts ==
    /\ InitAuth
    /\ django = [e \in {} |-> null]
    /\ supabase = [e \in {} |-> null]
    /\ provider = "unconfigured"
    /\ request = NoRequest
    /\ session = Anonymous
    /\ response = "none"
    /\ accounts_user \in SeedTables
    /\ pg_policies = {}
    /\ reply = NoReply

NextScripts ==
    \/ \E script \in Scripts : \E mode \in ErrorModes :
        RunScript(script, mode) /\ UNCHANGED <<authVars, syncVars>>
    \/ \E caller \in Callers : \E cols \in {LoginColumns, Columns} :
        Select(caller, cols) /\ UNCHANGED <<authVars, syncVars>>

SpecScripts == InitScripts /\ [][NextScripts]_vars

\* ----------------------------------------------------------------- claims
Range(s) == {s[k] : k \in DOMAIN s}

\* The user list in the persisted store.
PersistedUsers ==
    IF "tripease_users" \in DOMAIN localStorage
    THEN localStorage["tripease_users"]
    ELSE <<>>

\* No two positions of the list hold the same email.
EmailsDistinct(list) ==
    \A i \in DOMAIN list : \A j \in DOMAIN list :
        i # j => list[i].email # list[j].email

\* C1: in every reachable state no two Identities of a Credential Store
\* (the user list of a tab, or the persisted list) have the same email.
C1_EmailUnique ==
    /\ \A t \in Tabs : EmailsDistinct(users[t])
    /\ EmailsDistinct(PersistedUsers)

\* Case normalization of an email: every upper-case letter replaced by its
\* lower-case letter.
UpperCase == <<"A", "B", "C", "D", "E", "F", "G", "H", "I", "J", "K", "L", "M",
               "N", "O", "P", "Q", "R", "S", "T", "U", "V", "W", "X", "Y", "Z">>
LowerCase == <<"a", "b", "c", "d", "e", "f", "g", "h", "i", "j", "k", "l", "m",
               "n", "o", "p", "q", "r", "s", "t", "u", "v", "w", "x", "y", "z">>
Normalized(s) ==
    [k \in DOMAIN s |->
        IF \E n \in DOMAIN UpperCase : UpperCase[n] = s[k]
        THEN LowerCase[CHOOSE n \in DOMAIN UpperCase : UpperCase[n] = s[k]]
        ELSE s[k]]

DuplicateEmailMessage == "An account with this email already exists"

\* C2: a signup whose email equals, after case normalization, the email of
\* an Identity already in the store is rejected with the DuplicateEmail
\* message, and the store (in memory and persisted) is left as it was, with
\* no signup left awaiting its delay.
C2_NormalizedDuplicateRejected ==
    [][\A t \in Tabs : \A form \in SignupForms : \A now \in 0..ConcClock :
        ( /\ SubmitSignup(t, form, now)
          /\ validateForm(form)
          /\ \E k \in DOMAIN users[t] :
                Normalized(users[t][k].email) = Normalized(Trim(form.email)) )
        => /\ notification'[t].message = DuplicateEmailMessage
           /\ users' = users
           /\ localStorage' = localStorage
           /\ inflight' = inflight]_vars

\* C3: a login with the email and password of the Identity the latest
\* signup of the tab created binds the Session to that Identity.
C3_SignupThenLoginFindsIt ==
    [][\A t \in Tabs : \A i \in DOMAIN inflight[t] :
        ( /\ CompleteLogin(t, i)
          /\ users[t] # <<>>
          /\ inflight[t][i].email = users[t][Len(users[t])].email
          /\ inflight[t][i].password = users[t][Len(users[t])].password )
        => currentUser'[t] = users[t][Len(users[t])]]_vars

\* The Session in the persisted store.
PersistedSession == getItem("tripease_current_user")

\* C4: a signup rejected because its email is in the store leaves the
\* Session as it was, in memory and in the persisted store.
C4_DuplicateKeepsSession ==
    [][\/ /\ currentUser' = currentUser
          /\ PersistedSession' = PersistedSession
       \/ \A t \in Tabs : \A form \in SignupForms : \A now \in 0..ConcClock :
            ~( /\ FindByEmail(users[t], Trim(form.email)) # null
               /\ validateForm(form)
               /\ SubmitSignup(t, form, now) )]_vars

\* Reached after a signup with a known email was rejected while the Session
\* was bound.
C4_Witness ==
    \E t \in Tabs :
        /\ notification[t].message = DuplicateEmailMessage
        /\ currentUser[t] # null
        /\ PersistedSession = currentUser[t]

\* C5: the Session of a constructed AuthSystem becomes Authenticated only
\* in the completion of a login that found a user or of a signup, and
\* becomes Anonymous only in logout(); a login that finds no user and a
\* submission that fails validation leave it as it was.
C5_SessionTransitions ==
    [][\/ currentUser' = currentUser
       \/ \A t \in Tabs :
            /\ (currentUser'[t] # currentUser[t] /\ currentUser'[t] # null)
                => \/ Construct(t)
                   \/ \E i \in DOMAIN inflight[t] :
                        \/ /\ CompleteLogin(t, i)
                           /\ FindByCredentials(users[t], inflight[t][i].email,
                                                inflight[t][i].password) # null
                        \/ CompleteSignup(t, i)
            /\ (currentUser'[t] # currentUser[t] /\ currentUser'[t] = null)
                => (Construct(t) \/ Logout(t))
            /\ \A i \in DOMAIN inflight[t] :
                ~( /\ CompleteLogin(t, i)
                   /\ FindByCredentials(users[t], inflight[t][i].email,
                                        inflight[t][i].password) = null )
            /\ \A form \in LoginForms :
                ~(~validateForm(form) /\ SubmitLogin(t, form))
            /\ \A form \in SignupForms : \A now \in 0..ConcClock :
                ~(~validateForm(form) /\ SubmitSignup(t, form, now))]_vars

InvalidCredentialsMessage == "Invalid email or password"

\* Reached after a login that found no user completed while the Session was
\* bound.
C5_Witness ==
    \E t \in Tabs :
        /\ notification[t].message = InvalidCredentialsMessage
        /\ currentUser[t] # null

\* C6: a login or signup that awaited its delay when logout() was called
\* does not bind the Session when it completes: the Session stays
\* Anonymous.
C6_LogoutCancelsPending ==
    [][\A t \in Tabs : \A i \in DOMAIN inflight[t] :
        ( /\ inflight[t][i].overtaken
          /\ currentUser[t] = null
          /\ (CompleteLogin(t, i) \/ CompleteSignup(t, i)) )
        => currentUser'[t] = null]_vars

\* C7: a login awaits its delay with the trimmed email and the password of
\* the form; its completion binds the Session only to an Identity of the
\* store with exactly that email and that password, and when the store has
\* none it shows the InvalidCredentials message and binds nothing.
C7_LoginExactMatch ==
    [][\A t \in Tabs :
        /\ Len(inflight'[t]) > Len(inflight[t])
            => \A form \in LoginForms :
                (validateForm(form) /\ SubmitLogin(t, form))
                => /\ inflight'[t][Len(inflight'[t])].email = Trim(form.email)
                   /\ inflight'[t][Len(inflight'[t])].password = form.password
        /\ \A i \in DOMAIN inflight[t] :
            CompleteLogin(t, i)
            => LET op == inflight[t][i]
                   matches == {k \in DOMAIN users[t] :
                                /\ users[t][k].email = op.email
                                /\ users[t][k].password = op.password}
               IN  IF matches = {}
                   THEN /\ notification'[t].message = InvalidCredentialsMessage
                        /\ currentUser' = currentUser
                        /\ PersistedSession' = PersistedSession
                   ELSE /\ \E k \in matches : currentUser'[t] = users[t][k]
                        /\ PersistedSession' = currentUser'[t]]_vars

\* Reached after a login bound the Session to an Identity of the store.
C7_Witness ==
    \E t \in Tabs :
        /\ notification[t].message = "Login successful! Welcome back!"
        /\ currentUser[t] \in Range(users[t])

\* C8: a login that finds no user has one outcome, whether or not its email
\* is the email of an Identity of the store: the InvalidCredentials
\* notification, with the Session, the store and the persisted store as
\* they were.
C8_FailedLoginSameOutcome ==
    [][\A t \in Tabs : \A i \in DOMAIN inflight[t] :
        LET op == inflight[t][i]
            failed == /\ CompleteLogin(t, i)
                      /\ FindByCredentials(users[t], op.email, op.password) = null
            known == FindByEmail(users[t], op.email) # null
            outcome == /\ notification'[t] =
                            [message |-> InvalidCredentialsMessage,
                             type |-> "error"]
                       /\ currentUser' = currentUser
                       /\ users' = users
                       /\ localStorage' = localStorage
                       /\ errors' = errors
        IN  /\ (failed /\ known) => outcome
            /\ (failed /\ ~known) => outcome]_vars

\* Reached after a login with the email of an Identity of the store and
\* another password completed.
C8_Witness ==
    \E t \in Tabs :
        /\ notification[t].message = InvalidCredentialsMessage
        /\ \E k \in DOMAIN users[t] : users[t][k].email = E1

\* C9: at no time do two signups for the same email await their delay (both
\* past the duplicate check, neither written).
C9_OneSignupPerEmail ==
    \A p \in PendingSignups : \A q \in PendingSignups :
        p # q => inflight[p[1]][p[2]].userData.email
                    # inflight[q[1]][q[2]].userData.email

\* C10: when a signup completes, its Identity is in the store of its tab
\* and in the persisted store, and so is still every Identity written by a
\* signup for another email that awaited its delay at the same time.
C10_ConcurrentSignupsKept ==
    [][\A t \in Tabs : \A i \in DOMAIN inflight[t] :
        CompleteSignup(t, i)
        => /\ inflight[t][i].userData \in Range(users'[t])
           /\ inflight[t][i].userData \in Range(PersistedUsers')
           /\ \A peer \in inflight[t][i].peers :
                (\E u \in Tabs : peer \in Range(users[u]))
                => peer \in Range(PersistedUsers')]_vars

\* No two positions of the list hold the same identifier.
IdsDistinct(list) ==
    \A i \in DOMAIN list : \A j \in DOMAIN list :
        i # j => list[i].id # list[j].id

\* C11: in every reachable state no two Identities of a Credential Store
\* (the user list of a tab, or the persisted list) have the same
\* identifier, also when two signups read the same clock value.
C11_IdsUnique ==
    /\ \A t \in Tabs : IdsDistinct(users[t])
    /\ IdsDistinct(PersistedUsers)

\* The forms of SpecValidation whose required fields all pass their own
\* validation.
FieldsPass ==
    {form \in ValLoginForms \cup ValSignupForms :
        \A f \in DOMAIN form : validateField(f, form)}

\* The annotations of the forms of SpecValidation when every field carries
\* the result of its own validation.
OwnErrors ==
    [form \in ValLoginForms \cup ValSignupForms |->
        [f \in DOMAIN form |-> FieldError(f, form)]]

\* C12: a submitted form passes whole-form validation (the handler goes on
\* to leave an operation awaiting its delay) exactly when every required
\* field of the form passes its own validation; one failing field stops the
\* handler whatever the other fields hold.
C12_FormValidIffFieldsValid ==
    [][\A t \in Tabs :
        LET grew == Len(inflight'[t]) > Len(inflight[t])
        IN  /\ \A form \in ValLoginForms :
                \/ grew <=> form \in FieldsPass
                \/ ~SubmitLogin(t, form)
            /\ \A form \in ValSignupForms :
                \/ grew <=> /\ form \in FieldsPass
                            /\ FindByEmail(users[t], Trim(form.email)) = null
                \/ ~SubmitSignup(t, form, 0)]_vars

\* Reached after a form with one failing field (the email) and a passing
\* password was validated and nothing was left awaiting a delay.
C12_Witness ==
    \E t \in Tabs :
        /\ errors[t].login.email = validationRules.email.message
        /\ errors[t].login.password = NoError
        /\ users[t] # <<>>
        /\ inflight[t] = <<>>

\* C13: after whole-form validation of a submitted form every required
\* field that fails its own validation carries its own error annotation,
\* also the fields that come after a failing one, and every field that
\* passes carries none.
C13_EveryFailingFieldAnnotated ==
    [][\A t \in Tabs :
        /\ \A form \in ValLoginForms :
            \/ errors'[t].login = OwnErrors[form]
            \/ ~SubmitLogin(t, form)
        /\ \A form \in ValSignupForms \ FieldsPass :
            \/ errors'[t].signup = OwnErrors[form]
            \/ ~SubmitSignup(t, form, 0)]_vars

\* Reached when the first and the last input of the signup form fail: both
\* carry their annotation.
C13_Witness ==
    \E t \in Tabs :
        /\ errors[t].signup.phone = validationRules.phone.message
        /\ errors[t].signup.confirmPassword
                = validationRules.confirmPassword.message
        /\ errors[t].login.email = validationRules.email.message
        /\ errors[t].login.password = "Password is required"

\* C14: validation of a confirmPassword field that is not blank passes when
\* its value equals the value the password field holds at that moment, and
\* fails when the two differ.
C14_ConfirmEqualsPassword ==
    [][\A t \in Tabs : \A form \in ValSignupForms :
        ( /\ Blur(t, "signup", "confirmPassword", form)
          /\ Trim(form.confirmPassword) # <<>> )
        => ( errors'[t].signup.confirmPassword = NoError
             <=> form.confirmPassword = form.password )]_vars

FormNames == {"login", "signup"}
FieldsOf(formName) == IF formName = "login" THEN LoginFields ELSE SignupFields
FormsOf(formName) == IF formName = "login" THEN ValLoginForms ELSE ValSignupForms

\* The annotations of tab t other than that of field f of form fn are left
\* as they were.
OtherAnnotationsKept(t, fn, f) ==
    \A gn \in FormNames : \A g \in FieldsOf(gn) :
        (gn # fn \/ g # f) => errors'[t][gn][g] = errors[t][gn][g]

\* The blur and input events on field f of form fn: a blur leaves the field
\* annotated exactly when its validation fails, an input leaves it without
\* annotation, and both leave every other annotation as it was.
BlurAndInputEffects(t, fn, f) ==
    /\ \A form \in FormsOf(fn) :
        \/ /\ errors'[t][fn][f] = OwnErrors[form][f]
           /\ OtherAnnotationsKept(t, fn, f)
        \/ ~Blur(t, fn, f, form)
    /\ \/ /\ errors'[t][fn][f] = NoError
          /\ OtherAnnotationsKept(t, fn, f)
       \/ ~Input(t, fn, f)

\* A submission validates the inputs of its own form only.
SubmitKeepsOtherForm(t) ==
    /\ errors'[t].signup = errors[t].signup
        \/ \A form \in ValLoginForms : ~SubmitLogin(t, form)
    /\ errors'[t].login = errors[t].login
        \/ \A form \in ValSignupForms : ~SubmitSignup(t, form, 0)

\* C15 as claimed: the annotation of a field with a rule set is set by the
\* validations of the field (blur, submit) and removed by the next input
\* event on it, and by nothing else: the completion of a login or signup
\* leaves every annotation as it was.
C15_AnnotationLifecycle ==
    [][\A t \in Tabs :
        /\ \A fn \in FormNames : \A f \in FieldsOf(fn) :
            BlurAndInputEffects(t, fn, f)
        /\ SubmitKeepsOtherForm(t)
        /\ errors'[t] = errors[t]
            \/ \A i \in DOMAIN inflight[t] :
                ~(CompleteLogin(t, i) \/ CompleteSignup(t, i))]_vars

\* C15 amended: as claimed, but closeModal removes every annotation of both
\* forms, in the completion of a login that found a user, in the completion
\* of a signup and on a click that closes the modal; the completion of a
\* login that found none leaves them as they were.
C15_AnnotationLifecycleUntilClose ==
    [][\A t \in Tabs :
        /\ \A fn \in FormNames : \A f \in FieldsOf(fn) :
            BlurAndInputEffects(t, fn, f)
        /\ SubmitKeepsOtherForm(t)
        /\ \A i \in DOMAIN inflight[t] :
            LET op == inflight[t][i]
                closes == \/ op.kind = "signup"
                          \/ FindByCredentials(users[t], op.email,
                                               op.password) # null
            IN  \/ errors'[t] = (IF closes THEN NoErrors ELSE errors[t])
                \/ ~(CompleteLogin(t, i) \/ CompleteSignup(t, i))
        /\ errors'[t] = NoErrors \/ ~ClickModalClose(t)]_vars

\* Reached when an input was annotated while a signup awaited its delay:
\* the completion of the signup then removes the annotation.
C15_Witness ==
    \E t \in Tabs :
        /\ inflight[t] # <<>>
        /\ inflight[t][1].kind = "signup"
        /\ errors[t].signup.phone # NoError
        /\ errors[t].login.email # NoError

\* C16: a submitted login or signup form with a required field that fails
\* its validation creates no Identity, leaves the store of the tab, the
\* persisted store and the Session as they were, and leaves no operation
\* awaiting its delay.
C16_RejectedFormChangesNothing ==
    [][\/ /\ users' = users
          /\ localStorage' = localStorage
          /\ currentUser' = currentUser
          /\ inflight' = inflight
       \/ \A t \in Tabs :
            /\ \A form \in ValLoginForms \ FieldsPass :
                ~SubmitLogin(t, form)
            /\ \A form \in ValSignupForms \ FieldsPass :
                ~SubmitSignup(t, form, 0)]_vars

\* Reached after a form with failing fields was submitted while the Session
\* was bound: the fields are annotated and nothing awaits a delay.
C16_Witness ==
    \E t \in Tabs :
        /\ errors[t].login = OwnErrors[[email |-> EBad, password |-> <<>>]]
        /\ currentUser[t] # null
        /\ PersistedSession = currentUser[t]
        /\ inflight[t] = <<>>

\* C17: a login that finds Supabase not configured or not answering falls
\* back to Django's authentication, and a fallback whose email and password
\* match a row of the local table logs the user in and answers ok.
C17_LoginFallbackSucceeds ==
    [][/\ (LoginExternal /\ provider # "reachable")
            => request'.step = "fallback"
       /\ ( /\ LoginFallback
            /\ DjangoAuthenticates(request.email, request.password) )
            => /\ session' = request.email
               /\ response' = "ok"]_vars

\* Reached after a login was served by the fallback while Supabase, which
\* has no such user, did not answer.
C17_Witness ==
    /\ request.kind = "login"
    /\ request.step = "done"
    /\ ~request.externalOk
    /\ provider = "unreachable"
    /\ request.email \notin DOMAIN supabase
    /\ session = request.email
    /\ response = "ok"

\* C18: a login that Supabase did not accept (not configured, not
\* answering, or rejecting the credentials) goes to the fallback, and a
\* fallback whose email and password match no row of the local table fails
\* with InvalidCredentials and leaves the session as it was.
C18_FallbackNeverSilent ==
    [][/\ ( /\ LoginExternal
            /\ ~( /\ provider = "reachable"
                  /\ request.email \in DOMAIN supabase
                  /\ supabase[request.email].password = request.password ) )
            => request'.step = "fallback"
       /\ ( /\ LoginFallback
            /\ ~DjangoAuthenticates(request.email, request.password) )
            => /\ session' = session
               /\ response' = "InvalidCredentials"
               /\ django' = django]_vars

\* Reached after a login with the email of a local row and another
\* password failed, nobody being logged in.
C18_Witness ==
    /\ request.kind = "login"
    /\ request.step = "done"
    /\ response = "InvalidCredentials"
    /\ request.email \in DOMAIN django
    /\ session = Anonymous

C20_UpdatePropagatesMirroredOnly ==
    [][UpdatePropagate
        => /\ Mirrored(django[request.email]) = request.data
           /\ django' = django
           /\ DOMAIN supabase' = DOMAIN supabase
           /\ \A e \in DOMAIN supabase :
                /\ supabase'[e].password = supabase[e].password
                /\ DOMAIN supabase'[e] = {"password", "metadata"}
                /\ DOMAIN supabase'[e].metadata = MirroredFields
                /\ e # request.email => supabase'[e] = supabase[e]
           /\ (provider = "reachable" /\ request.email \in DOMAIN supabase)
                => supabase'[request.email].metadata = request.data
           /\ response' = "ok"]_vars

\* Reached after a profile update was answered ok while Supabase did not
\* answer: the local row has the update, the metadata in Supabase have not.
C20_Witness ==
    /\ request.kind = "update"
    /\ request.step = "done"
    /\ response = "ok"
    /\ provider = "unreachable"
    /\ Mirrored(django[request.email]) = request.data
    /\ request.email \in DOMAIN supabase
    /\ supabase[request.email].metadata # request.data

\* ------------------------------------------------- claims on the policies
\* The complete script is the one in force.
CompleteInForce == pg_policies = CompletePolicies

Flagged(row) == row.is_staff \/ row.is_superuser

\* The caller is signed in and has a row with a staff or superuser flag.
AdminCaller(caller, table) ==
    /\ caller.role = "authenticated"
    /\ \E r \in RowsOf(table) : r.user_id = caller.uid /\ Flagged(r)

\* The caller is signed in and no row of its own has a flag.
PlainCaller(caller, table) ==
    /\ caller.role = "authenticated"
    /\ \A r \in RowsOf(table) : r.user_id = caller.uid => ~Flagged(r)

Project(row, cols) == [c \in cols |-> row[c]]

\* C21: under the complete script, a read by a signed-in caller without a
\* staff or superuser flag returns rows of its own user_id only.
C21_ReadsOwnRowOnly ==
    (reply.cmd = "SELECT" /\ CompleteInForce
        /\ PlainCaller(reply.caller, accounts_user))
    => reply.rows \subseteq
          {Project(r, reply.cols) :
             r \in {x \in RowsOf(accounts_user) :
                      x.user_id = reply.caller.uid}}

\* C22: under the complete script, an update by a signed-in caller without
\* a staff or superuser flag changes no row but one whose user_id is the
\* caller's, and leaves that user_id as it was.
C22_UpdatesOwnRowOnly ==
    [][(reply'.cmd = "UPDATE" /\ CompleteInForce
           /\ PlainCaller(reply'.caller, accounts_user))
       => \A id \in RowIds :
            \/ accounts_user'[id] = accounts_user[id]
            \/ /\ accounts_user[id].user_id = reply'.caller.uid
               /\ accounts_user'[id].user_id = reply'.caller.uid]_vars

\* The caller tried to update the row of another user, and no row changed.
C22_Witness ==
    /\ reply.cmd = "UPDATE"
    /\ CompleteInForce
    /\ PlainCaller(reply.caller, accounts_user)
    /\ accounts_user[reply.id] # null
    /\ accounts_user[reply.id].user_id # reply.caller.uid
    /\ reply.count = 0

\* C23: under the complete script, a read by an anonymous caller returns no
\* column but those a login needs (email and password).
C23_AnonReadsLoginColumnsOnly ==
    (reply.cmd = "SELECT" /\ CompleteInForce /\ reply.caller.role = "anon")
    => \A r \in reply.rows : DOMAIN r \subseteq LoginColumns

FlagColumns == {"is_staff", "is_superuser"}

\* The row is the caller's by user_id and by the email of its auth.users row.
OwnRow(caller, row) ==
    row.user_id = caller.uid /\ row.email = AuthEmail(caller.uid)

\* C24: when a signed-in caller without a staff or superuser flag updates
\* its own row with a SET clause that sets a flag to true, the row keeps
\* both flags and takes the other columns of the SET clause.
C24_FlagRevertedRestApplied ==
    [][(reply'.cmd = "UPDATE"
           /\ PlainCaller(reply'.caller, accounts_user)
           /\ accounts_user[reply'.id] # null
           /\ OwnRow(reply'.caller, accounts_user[reply'.id])
           /\ \E c \in FlagColumns \cap DOMAIN reply'.set : reply'.set[c])
       => LET old == accounts_user[reply'.id]
              new == accounts_user'[reply'.id]
          IN  /\ new # null
              /\ \A c \in FlagColumns : new[c] = old[c]
              /\ \A c \in DOMAIN reply'.set \ FlagColumns :
                    new[c] = reply'.set[c]]_vars

C26_OwnFlagsImmutable ==
    [][(reply'.cmd = "UPDATE" /\ CompleteInForce
           /\ reply'.caller.role = "authenticated")
       => \A id \in RowIds :
            (/\ accounts_user[id] # null
             /\ accounts_user'[id] # null
             /\ accounts_user[id].user_id = reply'.caller.uid)
            => \A c \in FlagColumns :
                 accounts_user'[id][c] = accounts_user[id][c]]_vars

\* The ids of the rows that have a staff or superuser flag.
FlaggedIds(table) ==
    {id \in DOMAIN table : table[id] # null /\ Flagged(table[id])}

\* C27: under the complete script, a statement of an anonymous caller or of
\* a signed-in caller without a flag leaves no row with a staff or superuser
\* flag that had none before the statement.
C27_NoSelfMadeAdmin ==
    [][(/\ reply'.cmd # "none"
        /\ CompleteInForce
        /\ \/ reply'.caller.role = "anon"
           \/ PlainCaller(reply'.caller, accounts_user))
       => FlaggedIds(accounts_user') \subseteq FlaggedIds(accounts_user)]_vars

\* C28: under the complete script, an update by a signed-in caller without
\* a flag leaves the email of every row as it was.
C28_OwnUpdateKeepsEmail ==
    [][(reply'.cmd = "UPDATE" /\ CompleteInForce
           /\ PlainCaller(reply'.caller, accounts_user))
       => \A id \in RowIds :
            (accounts_user[id] # null /\ accounts_user'[id] # null)
            => accounts_user'[id].email = accounts_user[id].email]_vars

\* C29: a statement changes the table only if a policy in force names the
\* caller's role and the command; an update or a delete of an anonymous
\* caller changes no row, and neither does a delete of a signed-in caller
\* without a flag, whichever row it names.
C29_DenyByDefault ==
    [][reply'.cmd # "none"
       => /\ accounts_user' # accounts_user
               => \E p \in pg_policies :
                     /\ reply'.caller.role \in p.roles
                     /\ p.cmd \in {reply'.cmd, "ALL"}
          /\ (reply'.caller.role = "anon"
                  /\ reply'.cmd \in {"UPDATE", "DELETE"})
               => accounts_user' = accounts_user
          /\ (reply'.cmd = "DELETE"
                  /\ PlainCaller(reply'.caller, accounts_user))
               => accounts_user' = accounts_user]_vars

\* A signed-in caller without a flag asked to delete its own row, which is
\* still there.
C29_Witness ==
    /\ reply.cmd = "DELETE"
    /\ CompleteInForce
    /\ PlainCaller(reply.caller, accounts_user)
    /\ accounts_user[reply.id] # null
    /\ accounts_user[reply.id].user_id = reply.caller.uid
    /\ reply.count = 0

\* C30: under the complete script, a signed-in caller that has a row with
\* is_staff or is_superuser reads every row, has its update of any row
\* applied (unless the new email is taken), and has its delete of any row
\* carried out.
C30_StaffManagesEveryRow ==
    [][(/\ reply'.cmd # "none"
        /\ CompleteInForce
        /\ AdminCaller(reply'.caller, accounts_user))
       => /\ reply'.cmd = "SELECT"
               => reply'.rows = {Project(r, reply'.cols) :
                                  r \in RowsOf(accounts_user)}
          /\ (reply'.cmd = "UPDATE" /\ accounts_user[reply'.id] # null)
               => \/ reply'.status = "UniqueViolation"
                  \/ accounts_user'[reply'.id] =
                        Apply(accounts_user[reply'.id], reply'.set)
          /\ (reply'.cmd = "DELETE" /\ accounts_user[reply'.id] # null)
               => accounts_user'[reply'.id] = null]_vars

\* A caller with a flagged row has deleted the row of another user.
C30_Witness ==
    /\ reply.cmd = "DELETE"
    /\ CompleteInForce
    /\ AdminCaller(reply.caller, accounts_user)
    /\ reply.count = 1
    /\ accounts_user[reply.id] = null

\* C31: a statement of a service_role caller is carried out on every row:
\* its read returns all rows, its insert adds the row, its update of any
\* row applies the SET clause and its delete of any row removes it; only
\* the uniqueness of email can stop an insert or an update.
C31_ServiceRoleUnconditional ==
    [][(reply'.cmd # "none" /\ reply'.caller.role = "service_role")
       => /\ reply'.status # "PermissionDenied"
          /\ reply'.cmd = "SELECT"
               => reply'.rows = {Project(r, reply'.cols) :
                                  r \in RowsOf(accounts_user)}
          /\ reply'.cmd = "INSERT"
               => \/ reply'.status = "UniqueViolation"
                  \/ reply'.row \in RowsOf(accounts_user')
          /\ (reply'.cmd = "UPDATE" /\ accounts_user[reply'.id] # null)
               => \/ reply'.status = "UniqueViolation"
                  \/ accounts_user'[reply'.id] =
                        Apply(accounts_user[reply'.id], reply'.set)
          /\ (reply'.cmd = "DELETE" /\ accounts_user[reply'.id] # null)
               => accounts_user'[reply'.id] = null]_vars

\* The service role has set a flag on the row of the plain user.
C31_Witness ==
    /\ reply.cmd = "UPDATE"
    /\ reply.caller.role = "service_role"
    /\ reply.count = 1
    /\ reply.id = 1
    /\ "is_staff" \in DOMAIN reply.set
    /\ accounts_user[reply.id].is_staff

\* C32: run on a table that carries the policies of one of the scripts, the
\* complete script ends without a failed statement and leaves exactly its
\* eight policies in force.
C32_CompleteScriptCleanSetup ==
    [][(/\ reply'.cmd = "SCRIPT"
        /\ reply'.script = "complete"
        /\ pg_policies \in {PoliciesOf(script) : script \in Scripts})
       => /\ reply'.status = "ok"
          /\ pg_policies' = CompletePolicies]_vars

\* ------------------------------------------ claims on the persisted store
\* C33: between the steps of the handlers, the user list and the current
\* user of every AuthSystem instance equal those of the persisted store.
C33_PersistedEqualsMemory ==
    \A t \in Tabs :
        /\ users[t] = PersistedUsers
        /\ currentUser[t] = PersistedSession

\* C34: in every reachable state an authenticated session, in memory or
\* persisted, holds an Identity that is an element of the user list beside
\* it, with the same value in every field.
C34_SessionIdentityInStore ==
    /\ \A t \in Tabs :
        currentUser[t] # null => currentUser[t] \in Range(users[t])
    /\ PersistedSession # null => PersistedSession \in Range(PersistedUsers)

\* C35: an Identity that is in the user list of a tab and in the persisted
\* user list is, after any step of any tab, still in both with the same
\* value in every field.
C35_StoreAppendOnly ==
    [][\A t \in Tabs :
        \A identity \in Range(users[t]) \cap Range(PersistedUsers) :
            /\ identity \in Range(users'[t])
            /\ identity \in Range(PersistedUsers')]_vars

\* The declared rules of the fields of an Identity, on the values it holds.
SatisfiesFieldRules(identity) ==
    /\ EmailPattern(identity.email)
    /\ Len(identity.password) >= 6
    /\ Len(identity.firstName) >= 2 /\ NamePattern(identity.firstName)
    /\ Len(identity.lastName) >= 2 /\ NamePattern(identity.lastName)
    /\ PhonePattern(identity.phone)

\* C36: every Identity a signup has put in the user list of its tab, in the
\* persisted user list, or in either current user satisfies the rules of
\* the fields on the values stored.
C36_StoredIdentityValid ==
    \A identity \in
        Range(users["tab1"]) \cup Range(PersistedUsers)
        \cup ({currentUser["tab1"], PersistedSession} \ {null}) :
            SatisfiesFieldRules(identity)

\* A signup has completed and its Identity is stored.
C36_Witness ==
    /\ PersistedUsers # <<>>
    /\ users["tab1"] = PersistedUsers
    /\ inflight["tab1"] = <<>>
    /\ notification["tab1"].type = "success"

\* The Identity the login inflight[t][i] finds at its completion, or null.
LoginMatch(t, i) ==
    FindByCredentials(users[t], inflight[t][i].email, inflight[t][i].password)

\* The step is the completion of a successful login or of a signup as
\* identity in some tab.
AuthenticatesAs(identity) ==
    \E t \in Tabs : \E i \in DOMAIN inflight[t] :
        \/ /\ inflight[t][i].kind = "login"
           /\ LoginMatch(t, i) = identity
           /\ CompleteLogin(t, i)
        \/ /\ inflight[t][i].kind = "signup"
           /\ inflight[t][i].userData = identity
           /\ CompleteSignup(t, i)

\* C37: the persisted session is absent at first, becomes identity at every
\* completion of a successful login or signup as identity in any tab,
\* becomes absent at every logout and changes at no other step; and an
\* AuthSystem constructed in a tab starts with the persisted session as its
\* current user.  So a page load starts Authenticated as identity exactly
\* when the last completed login, signup or logout was a successful login
\* or signup as identity.
C37_ReloadRestoresSession ==
    [][/\ \A t \in Tabs :
            currentUser'[t] = PersistedSession \/ ~Construct(t)
       /\ \A t \in Tabs : PersistedSession' = null \/ ~Logout(t)
       /\ \A t \in Tabs : \A i \in DOMAIN inflight[t] :
            IF inflight[t][i].kind = "signup"
            THEN \/ PersistedSession' = inflight[t][i].userData
                 \/ ~CompleteSignup(t, i)
            ELSE \/ PersistedSession' = LoginMatch(t, i)
                 \/ LoginMatch(t, i) = null
                 \/ ~CompleteLogin(t, i)
       /\ \/ PersistedSession' = PersistedSession
          \/ PersistedSession' = null /\ \E t \in Tabs : Logout(t)
          \/ PersistedSession' # null /\ AuthenticatesAs(PersistedSession')]_vars

\* The page of tab2 was loaded after a login or signup in a tab and no
\* logout since: it starts Authenticated without having authenticated.
C37_Witness ==
    /\ currentUser["tab2"] # null
    /\ currentUser["tab2"] = PersistedSession
    /\ notification["tab2"] = NoNotification

\* The operations of the form (login or signup) awaiting their delay in
\* tab t.
InFlightOf(t, form) ==
    {i \in DOMAIN inflight[t] : inflight[t][i].kind = form}

\* C38: the submit button of a form is disabled while an operation of the
\* form awaits its delay, and is enabled with its original text whenever
\* none does, whatever the outcome of the operations completed before.
C38_ButtonTracksInFlight ==
    \A t \in Tabs : \A form \in {"login", "signup"} :
        IF InFlightOf(t, form) # {}
        THEN submitBtn[t][form].disabled
        ELSE submitBtn[t][form] = InitialBtn[form]
====
